---------------------------- MODULE Spec2Model ----------------------------
(***************************************************************************)
(* The pension_manager contract (contracts/src/lib.rs) as a state machine. *)
(* One action per contract message; every message runs to completion       *)
(* before the next one is admitted.                                        *)
(*                                                                         *)
(* Mapping<K, V> is a function from every AccountId to Option<V>: the      *)
(* value Mapping::get returns for that key.                                *)
(* Option<T> is a sequence: <<>> is None, <<x>> is Some(x).                *)
(* Result<T, Error> is a record [ok, err, val]: Ok(v) has ok = TRUE and    *)
(* val = <<v>> (<<>> for the unit value), Err(e) has ok = FALSE, err = e.  *)
(***************************************************************************)
EXTENDS Integers, Sequences, FiniteSets, TLC

VARIABLES
    pensioners,                 \* Mapping<AccountId, PensionerData>
    company_authorizations,     \* Mapping<AccountId, ()>: the set of keys
    bank_authorizations,        \* Mapping<AccountId, ()>
    tax_office_authorizations,  \* Mapping<AccountId, ()>
    pensioner_insurances,       \* Mapping<AccountId, Vec<BankInsuranceInfo>>
    pensioner_tax_config,       \* Mapping<AccountId, TaxOfficeInfo>
    spouse_death_benefits,      \* Mapping<AccountId, Balance>
    contract_owner,             \* AccountId
    last                        \* the message handled last and what it returned

storage == <<pensioners, company_authorizations, bank_authorizations,
             tax_office_authorizations, pensioner_insurances,
             pensioner_tax_config, spouse_death_benefits, contract_owner>>

vars == <<pensioners, company_authorizations, bank_authorizations,
          tax_office_authorizations, pensioner_insurances,
          pensioner_tax_config, spouse_death_benefits, contract_owner, last>>

---------------------------------------------------------------------------
(* Widths.  Balance is u128 and years_worked is u32 in the contract; the   *)
(* model keeps the same arithmetic at a reduced width.                     *)

BalanceBits == 24

YearsBits == 10

U8Max == 255

BalanceMax == 2 ^ BalanceBits - 1

U32Max == 2 ^ YearsBits - 1

---------------------------------------------------------------------------
(* Option and Result.                                                      *)

None == <<>>

Some(x) == <<x>>

Ok(v) == [ok |-> TRUE, err |-> "", val |-> v]

Err(e) == [ok |-> FALSE, err |-> e, val |-> <<>>]

Error == {"Unauthorized", "AlreadyRegistered", "NotRegistered",
          "PensionerNotFound", "InvalidInput", "PayoutNotApplicable",
          "NotYetEligibleForPayout", "AlreadyDeceased"}

EmploymentStatus == {"Active", "LongTermPause", "LaidOff"}

MapContains(m, k) == m[k] # None

(* Mapping::get(k).unwrap(), used only where the key is known to be stored.*)
MapValue(m, k) == m[k][1]

(* Mapping::insert: the value stored under key k is replaced or created.   *)
MapInsert(m, k, v) == [m EXCEPT ![k] = Some(v)]

(* Mapping::remove.                                                        *)
MapRemove(m, k) == [m EXCEPT ![k] = None]

MapKeys(m) == {k \in DOMAIN m : m[k] # None}

---------------------------------------------------------------------------
(* Integer primitives of Balance, as the Rust core library defines them.   *)

checked_mul(a, b) ==
    IF a = 0 \/ b <= BalanceMax \div a THEN Some(a * b) ELSE None

checked_div(a, b) == IF b = 0 THEN None ELSE Some(a \div b)

unwrap_or(opt, d) == IF opt = None THEN d ELSE opt[1]

(* An addition that, like the multiplications of the engine, yields 0 when *)
(* the sum does not fit.                                                   *)
checked_add_or_zero(a, b) == IF a + b > BalanceMax THEN 0 ELSE a + b

saturating_add(a, b) == IF a > BalanceMax - b THEN BalanceMax ELSE a + b

saturating_sub(a, b) == IF b > a THEN 0 ELSE a - b

(* Balance::from(u32) and Balance::from(u8): a lossless widening.           *)
BalanceFrom(n) == n

---------------------------------------------------------------------------
(* The payout engine: _calculate_pension_amount.                           *)

(* salary / 100 * years * 2, every step checked and defaulting to 0.       *)
base_pension(pensioner_data) ==
    unwrap_or(
        checked_mul(
            unwrap_or(
                checked_mul(
                    unwrap_or(checked_div(pensioner_data.current_salary, 100), 0),
                    BalanceFrom(pensioner_data.years_worked)),
                0),
            2),
        0)

(* The loop over the stored insurances, in list order.                     *)
RECURSIVE add_insurances(_, _)
add_insurances(total, insurances) ==
    IF insurances = <<>> THEN total
    ELSE add_insurances(
             saturating_add(total, Head(insurances).insurance_payout_per_period),
             Tail(insurances))

total_estimated_payout(pensioner_data, pensioner_id) ==
    IF MapContains(pensioner_insurances, pensioner_id)
    THEN add_insurances(base_pension(pensioner_data),
                        MapValue(pensioner_insurances, pensioner_id))
    ELSE base_pension(pensioner_data)

tax_amount(total, tax_rate_percentage) ==
    unwrap_or(
        checked_div(
            unwrap_or(checked_mul(total, BalanceFrom(tax_rate_percentage)), 0),
            100),
        0)

(* _calculate_pension_amount without its check of the stored tax rate.    *)
calculate_pension_amount_unvalidated(pensioner_data, pensioner_id) ==
    IF pensioner_data.is_deceased THEN Err("PayoutNotApplicable")
    ELSE LET total == total_estimated_payout(pensioner_data, pensioner_id) IN
         IF MapContains(pensioner_tax_config, pensioner_id)
         THEN LET tax_info == MapValue(pensioner_tax_config, pensioner_id) IN
              Ok(Some(saturating_sub(
                  total, tax_amount(total, tax_info.tax_rate_percentage))))
         ELSE Ok(Some(total))

calculate_pension_amount(pensioner_data, pensioner_id) ==
    IF pensioner_data.is_deceased THEN Err("PayoutNotApplicable")
    ELSE LET total == total_estimated_payout(pensioner_data, pensioner_id) IN
         IF MapContains(pensioner_tax_config, pensioner_id)
         THEN LET tax_info == MapValue(pensioner_tax_config, pensioner_id) IN
              IF tax_info.tax_rate_percentage > 100 THEN Err("InvalidInput")
              ELSE Ok(Some(saturating_sub(
                       total, tax_amount(total, tax_info.tax_rate_percentage))))
         ELSE Ok(Some(total))

(* The spouse's share computed with the divisor 10.                        *)
spouse_benefit_divisor_10(benefit_base_amount) ==
    unwrap_or(
        checked_div(unwrap_or(checked_mul(benefit_base_amount, 20), 0), 10),
        0)

(* The spouse's share computed by report_death_and_assign_spouse_benefit.  *)
spouse_benefit(benefit_base_amount) ==
    unwrap_or(
        checked_div(unwrap_or(checked_mul(benefit_base_amount, 20), 0), 100),
        0)

---------------------------------------------------------------------------
(* Authorization helpers.  TRUE stands for Ok(()), FALSE for               *)
(* Err(Error::Unauthorized).                                               *)

(* A bank check that accepts a caller registered in any role.               *)
ensure_caller_is_registered(caller) ==
    caller \in bank_authorizations \cup company_authorizations
               \cup tax_office_authorizations

ensure_caller_is_authorized_bank(caller) == caller \in bank_authorizations

ensure_caller_is_authorized_tax_office(caller) ==
    caller \in tax_office_authorizations

(* An owner check that also lets a registered company through.            *)
ensure_owner_or_company(caller) ==
    caller = contract_owner \/ caller \in company_authorizations

ensure_owner(caller) == caller = contract_owner

(* A company check that treats the owner as a company.                     *)
ensure_company_or_owner(company_id) ==
    company_id \in company_authorizations \/ company_id = contract_owner

ensure_company_authorized(company_id) == company_id \in company_authorizations

---------------------------------------------------------------------------
(* What each message returns, as a function of the state it is called in.  *)
(* The checks are in the order of the handler's early returns.             *)

(* register_company without its AlreadyRegistered check.                   *)
register_company_result_unchecked(caller, company_id) ==
    IF ~ensure_owner(caller) THEN Err("Unauthorized")
    ELSE Ok(<<>>)

register_company_result(caller, company_id) ==
    IF ~ensure_owner(caller) THEN Err("Unauthorized")
    ELSE IF company_id \in company_authorizations THEN Err("AlreadyRegistered")
    ELSE Ok(<<>>)

unregister_company_result(caller, company_id) ==
    IF ~ensure_owner(caller) THEN Err("Unauthorized")
    ELSE IF company_id \notin company_authorizations THEN Err("NotRegistered")
    ELSE Ok(<<>>)

register_bank_result(caller, bank_id) ==
    IF ~ensure_owner(caller) THEN Err("Unauthorized")
    ELSE IF bank_id \in bank_authorizations THEN Err("AlreadyRegistered")
    ELSE Ok(<<>>)

unregister_bank_result(caller, bank_id) ==
    IF ~ensure_owner(caller) THEN Err("Unauthorized")
    ELSE IF bank_id \notin bank_authorizations THEN Err("NotRegistered")
    ELSE Ok(<<>>)

register_tax_office_result(caller, tax_office_id) ==
    IF ~ensure_owner(caller) THEN Err("Unauthorized")
    ELSE IF tax_office_id \in tax_office_authorizations
         THEN Err("AlreadyRegistered")
    ELSE Ok(<<>>)

unregister_tax_office_result(caller, tax_office_id) ==
    IF ~ensure_owner(caller) THEN Err("Unauthorized")
    ELSE IF tax_office_id \notin tax_office_authorizations
         THEN Err("NotRegistered")
    ELSE Ok(<<>>)

update_pensioner_employment_result(caller) ==
    IF ~ensure_company_authorized(caller) THEN Err("Unauthorized") ELSE Ok(<<>>)

(* add_pension_insurance without its check that the record exists.         *)
add_pension_insurance_result_unchecked(caller, pensioner_id) ==
    IF ~ensure_caller_is_authorized_bank(caller) THEN Err("Unauthorized")
    ELSE Ok(<<>>)

add_pension_insurance_result(caller, pensioner_id) ==
    IF ~ensure_caller_is_authorized_bank(caller) THEN Err("Unauthorized")
    ELSE IF ~MapContains(pensioners, pensioner_id) THEN Err("PensionerNotFound")
    ELSE Ok(<<>>)

(* apply_pension_tax_rate checking the rate before the record.             *)
apply_pension_tax_rate_result_rate_first(caller, pensioner_id, tax_rate_percentage) ==
    IF ~ensure_caller_is_authorized_tax_office(caller) THEN Err("Unauthorized")
    ELSE IF tax_rate_percentage > 100 THEN Err("InvalidInput")
    ELSE IF ~MapContains(pensioners, pensioner_id) THEN Err("PensionerNotFound")
    ELSE Ok(<<>>)

(* apply_pension_tax_rate accepting a rate of 101.                         *)
apply_pension_tax_rate_result_off_by_one(caller, pensioner_id, tax_rate_percentage) ==
    IF ~ensure_caller_is_authorized_tax_office(caller) THEN Err("Unauthorized")
    ELSE IF ~MapContains(pensioners, pensioner_id) THEN Err("PensionerNotFound")
    ELSE IF tax_rate_percentage > 101 THEN Err("InvalidInput")
    ELSE Ok(<<>>)

(* apply_pension_tax_rate without its check of the rate.                   *)
apply_pension_tax_rate_result_any_rate(caller, pensioner_id, tax_rate_percentage) ==
    IF ~ensure_caller_is_authorized_tax_office(caller) THEN Err("Unauthorized")
    ELSE IF ~MapContains(pensioners, pensioner_id) THEN Err("PensionerNotFound")
    ELSE Ok(<<>>)

apply_pension_tax_rate_result(caller, pensioner_id, tax_rate_percentage) ==
    IF ~ensure_caller_is_authorized_tax_office(caller) THEN Err("Unauthorized")
    ELSE IF ~MapContains(pensioners, pensioner_id) THEN Err("PensionerNotFound")
    ELSE IF tax_rate_percentage > 100 THEN Err("InvalidInput")
    ELSE Ok(<<>>)

set_age_eligibility_status_result(caller, pensioner_id) ==
    IF ~ensure_owner(caller) THEN Err("Unauthorized")
    ELSE IF ~MapContains(pensioners, pensioner_id) THEN Err("PensionerNotFound")
    ELSE Ok(<<>>)

(* initiate_pension_payout checking the eligibility before anything else   *)
(* about the record.                                                       *)
initiate_pension_payout_result_age_first(caller) ==
    IF ~MapContains(pensioners, caller) THEN Err("PensionerNotFound")
    ELSE LET pensioner_data == MapValue(pensioners, caller) IN
         IF ~pensioner_data.is_eligible_for_payout_age_wise
         THEN Err("NotYetEligibleForPayout")
         ELSE IF pensioner_data.is_deceased
                 \/ pensioner_data.is_receiving_pension
         THEN Err("PayoutNotApplicable")
         ELSE calculate_pension_amount(pensioner_data, caller)

(* initiate_pension_payout without its eligibility check.                  *)
initiate_pension_payout_result_any_age(caller) ==
    IF ~MapContains(pensioners, caller) THEN Err("PensionerNotFound")
    ELSE LET pensioner_data == MapValue(pensioners, caller) IN
         IF pensioner_data.is_deceased \/ pensioner_data.is_receiving_pension
         THEN Err("PayoutNotApplicable")
         ELSE calculate_pension_amount(pensioner_data, caller)

(* initiate_pension_payout paying the gross total, without the tax.        *)
initiate_pension_payout_result_gross(caller) ==
    IF ~MapContains(pensioners, caller) THEN Err("PensionerNotFound")
    ELSE LET pensioner_data == MapValue(pensioners, caller) IN
         IF pensioner_data.is_deceased \/ pensioner_data.is_receiving_pension
         THEN Err("PayoutNotApplicable")
         ELSE IF ~pensioner_data.is_eligible_for_payout_age_wise
         THEN Err("NotYetEligibleForPayout")
         ELSE Ok(Some(total_estimated_payout(pensioner_data, caller)))

initiate_pension_payout_result(caller) ==
    IF ~MapContains(pensioners, caller) THEN Err("PensionerNotFound")
    ELSE LET pensioner_data == MapValue(pensioners, caller) IN
         IF pensioner_data.is_deceased \/ pensioner_data.is_receiving_pension
         THEN Err("PayoutNotApplicable")
         ELSE IF ~pensioner_data.is_eligible_for_payout_age_wise
         THEN Err("NotYetEligibleForPayout")
         ELSE calculate_pension_amount(pensioner_data, caller)

(* designate_spouse_beneficiary without its is_deceased check.             *)
designate_spouse_beneficiary_result_unchecked(caller) ==
    IF ~MapContains(pensioners, caller) THEN Err("PensionerNotFound")
    ELSE Ok(<<>>)

designate_spouse_beneficiary_result(caller) ==
    IF ~MapContains(pensioners, caller) THEN Err("PensionerNotFound")
    ELSE IF MapValue(pensioners, caller).is_deceased
         THEN Err("PayoutNotApplicable")
    ELSE Ok(<<>>)

(* report_death_and_assign_spouse_benefit without its is_deceased check.   *)
report_death_result_unchecked(deceased_pensioner_id) ==
    IF ~MapContains(pensioners, deceased_pensioner_id)
    THEN Err("PensionerNotFound")
    ELSE LET pensioner_data == MapValue(pensioners, deceased_pensioner_id)
             base == calculate_pension_amount(pensioner_data,
                                              deceased_pensioner_id) IN
         IF ~base.ok THEN base
         ELSE IF pensioner_data.spouse_beneficiary # None
         THEN Ok(Some(Some(spouse_benefit(base.val[1]))))
         ELSE Ok(Some(None))

report_death_and_assign_spouse_benefit_result(deceased_pensioner_id) ==
    IF ~MapContains(pensioners, deceased_pensioner_id)
    THEN Err("PensionerNotFound")
    ELSE LET pensioner_data == MapValue(pensioners, deceased_pensioner_id) IN
         IF pensioner_data.is_deceased THEN Err("AlreadyDeceased")
         ELSE LET base == calculate_pension_amount(pensioner_data,
                                                   deceased_pensioner_id) IN
              IF ~base.ok THEN base
              ELSE IF pensioner_data.spouse_beneficiary # None
              THEN Ok(Some(Some(spouse_benefit(base.val[1]))))
              ELSE Ok(Some(None))

get_my_future_payout_result(caller) ==
    IF ~MapContains(pensioners, caller) THEN Err("PensionerNotFound")
    ELSE IF MapValue(pensioners, caller).is_deceased
         THEN Err("PayoutNotApplicable")
    ELSE calculate_pension_amount(MapValue(pensioners, caller), caller)

---------------------------------------------------------------------------
(* Read-only messages that cannot fail.                                    *)

is_company_authorized(company_id) == company_id \in company_authorizations

is_bank_authorized(bank_id) == bank_id \in bank_authorizations

is_tax_office_authorized(tax_office_id) ==
    tax_office_id \in tax_office_authorizations

(* get_pensioner_data that no longer shows the record of a deceased.       *)
get_pensioner_data_living(pensioner_id) ==
    IF MapContains(pensioners, pensioner_id)
       /\ MapValue(pensioners, pensioner_id).is_deceased
    THEN None
    ELSE pensioners[pensioner_id]

get_pensioner_data(pensioner_id) == pensioners[pensioner_id]

get_pensioner_insurances(pensioner_id) == pensioner_insurances[pensioner_id]

get_pensioner_tax_config(pensioner_id) == pensioner_tax_config[pensioner_id]

get_my_spouse_death_benefit(caller) == spouse_death_benefits[caller]

get_contract_owner == contract_owner

---------------------------------------------------------------------------
(* The messages.  id is the AccountId argument of the message, or the      *)
(* caller for a message that takes none.                                   *)

Call(op, caller, id, res) == [op |-> op, caller |-> caller, id |-> id, res |-> res]

(* The record update_pensioner_employment starts from when none is stored. *)
(* A default record that is already eligible.                              *)
default_pensioner_data_eligible ==
    [years_worked |-> 0, current_salary |-> 0, status |-> "Active",
     is_deceased |-> FALSE, is_receiving_pension |-> FALSE,
     is_eligible_for_payout_age_wise |-> TRUE,
     pension_payout_amount |-> None, spouse_beneficiary |-> None]

default_pensioner_data ==
    [years_worked |-> 0, current_salary |-> 0, status |-> "Active",
     is_deceased |-> FALSE, is_receiving_pension |-> FALSE,
     is_eligible_for_payout_age_wise |-> FALSE,
     pension_payout_amount |-> None, spouse_beneficiary |-> None]

register_company(caller, company_id) ==
    LET res == register_company_result(caller, company_id) IN
    /\ company_authorizations' =
           IF res.ok THEN company_authorizations \cup {company_id}
           ELSE company_authorizations
    /\ last' = Call("register_company", caller, company_id, res)
    /\ UNCHANGED <<pensioners, bank_authorizations, tax_office_authorizations,
                   pensioner_insurances, pensioner_tax_config,
                   spouse_death_benefits, contract_owner>>

(* unregister_company that reports success and leaves the company in.      *)
unregister_company_deferred(caller, company_id) ==
    LET res == unregister_company_result(caller, company_id) IN
    /\ last' = Call("unregister_company", caller, company_id, res)
    /\ UNCHANGED <<pensioners, company_authorizations, bank_authorizations,
                   tax_office_authorizations, pensioner_insurances,
                   pensioner_tax_config, spouse_death_benefits, contract_owner>>

unregister_company(caller, company_id) ==
    LET res == unregister_company_result(caller, company_id) IN
    /\ company_authorizations' =
           IF res.ok THEN company_authorizations \ {company_id}
           ELSE company_authorizations
    /\ last' = Call("unregister_company", caller, company_id, res)
    /\ UNCHANGED <<pensioners, bank_authorizations, tax_office_authorizations,
                   pensioner_insurances, pensioner_tax_config,
                   spouse_death_benefits, contract_owner>>

register_bank(caller, bank_id) ==
    LET res == register_bank_result(caller, bank_id) IN
    /\ bank_authorizations' =
           IF res.ok THEN bank_authorizations \cup {bank_id}
           ELSE bank_authorizations
    /\ last' = Call("register_bank", caller, bank_id, res)
    /\ UNCHANGED <<pensioners, company_authorizations,
                   tax_office_authorizations, pensioner_insurances,
                   pensioner_tax_config, spouse_death_benefits, contract_owner>>

(* unregister_bank that also drops the entries the bank added.             *)
unregister_bank_purging(caller, bank_id) ==
    LET res == unregister_bank_result(caller, bank_id)
        others(e) == e.bank_id # bank_id IN
    /\ bank_authorizations' =
           IF res.ok THEN bank_authorizations \ {bank_id}
           ELSE bank_authorizations
    /\ pensioner_insurances' =
           IF res.ok
           THEN [p \in DOMAIN pensioner_insurances |->
                     IF MapContains(pensioner_insurances, p)
                     THEN Some(SelectSeq(MapValue(pensioner_insurances, p),
                                         others))
                     ELSE None]
           ELSE pensioner_insurances
    /\ last' = Call("unregister_bank", caller, bank_id, res)
    /\ UNCHANGED <<pensioners, company_authorizations,
                   tax_office_authorizations, pensioner_tax_config,
                   spouse_death_benefits, contract_owner>>

unregister_bank(caller, bank_id) ==
    LET res == unregister_bank_result(caller, bank_id) IN
    /\ bank_authorizations' =
           IF res.ok THEN bank_authorizations \ {bank_id}
           ELSE bank_authorizations
    /\ last' = Call("unregister_bank", caller, bank_id, res)
    /\ UNCHANGED <<pensioners, company_authorizations,
                   tax_office_authorizations, pensioner_insurances,
                   pensioner_tax_config, spouse_death_benefits, contract_owner>>

register_tax_office(caller, tax_office_id) ==
    LET res == register_tax_office_result(caller, tax_office_id) IN
    /\ tax_office_authorizations' =
           IF res.ok THEN tax_office_authorizations \cup {tax_office_id}
           ELSE tax_office_authorizations
    /\ last' = Call("register_tax_office", caller, tax_office_id, res)
    /\ UNCHANGED <<pensioners, company_authorizations, bank_authorizations,
                   pensioner_insurances, pensioner_tax_config,
                   spouse_death_benefits, contract_owner>>

unregister_tax_office(caller, tax_office_id) ==
    LET res == unregister_tax_office_result(caller, tax_office_id) IN
    /\ tax_office_authorizations' =
           IF res.ok THEN tax_office_authorizations \ {tax_office_id}
           ELSE tax_office_authorizations
    /\ last' = Call("unregister_tax_office", caller, tax_office_id, res)
    /\ UNCHANGED <<pensioners, company_authorizations, bank_authorizations,
                   pensioner_insurances, pensioner_tax_config,
                   spouse_death_benefits, contract_owner>>

(* The stored record, or the default one, with the three employment fields *)
(* overwritten.                                                            *)
(* update_pensioner_employment writing a record that is alive again.       *)
updated_employment_revived(pensioner_id, years_worked, current_salary, status) ==
    LET pensioner_data ==
            IF MapContains(pensioners, pensioner_id)
            THEN MapValue(pensioners, pensioner_id)
            ELSE default_pensioner_data
    IN [pensioner_data EXCEPT !.years_worked = years_worked,
                              !.current_salary = current_salary,
                              !.status = status,
                              !.is_deceased = FALSE]

(* update_pensioner_employment writing a fresh record every time.          *)
updated_employment_from_default(pensioner_id, years_worked, current_salary, status) ==
    [default_pensioner_data EXCEPT !.years_worked = years_worked,
                                   !.current_salary = current_salary,
                                   !.status = status]

updated_employment(pensioner_id, years_worked, current_salary, status) ==
    LET pensioner_data ==
            IF MapContains(pensioners, pensioner_id)
            THEN MapValue(pensioners, pensioner_id)
            ELSE default_pensioner_data
    IN [pensioner_data EXCEPT !.years_worked = years_worked,
                              !.current_salary = current_salary,
                              !.status = status]

update_pensioner_employment(caller, pensioner_id, years_worked, current_salary, status) ==
    LET res == update_pensioner_employment_result(caller) IN
    /\ pensioners' =
           IF res.ok
           THEN MapInsert(pensioners, pensioner_id,
                          updated_employment(pensioner_id, years_worked,
                                             current_salary, status))
           ELSE pensioners
    /\ last' = Call("update_pensioner_employment", caller, pensioner_id, res)
    /\ UNCHANGED <<company_authorizations, bank_authorizations,
                   tax_office_authorizations, pensioner_insurances,
                   pensioner_tax_config, spouse_death_benefits, contract_owner>>

(* get(..).unwrap_or_default() followed by push.                           *)
(* add_pension_insurance putting the new entry in front of the list.       *)
pushed_insurances_in_front(caller, pensioner_id, insurance_payout_per_period, details) ==
    <<[bank_id |-> caller,
       insurance_payout_per_period |-> insurance_payout_per_period,
       details |-> details]>>
    \o (IF MapContains(pensioner_insurances, pensioner_id)
        THEN MapValue(pensioner_insurances, pensioner_id) ELSE <<>>)

pushed_insurances(caller, pensioner_id, insurance_payout_per_period, details) ==
    Append(IF MapContains(pensioner_insurances, pensioner_id)
           THEN MapValue(pensioner_insurances, pensioner_id) ELSE <<>>,
           [bank_id |-> caller,
            insurance_payout_per_period |-> insurance_payout_per_period,
            details |-> details])

add_pension_insurance(caller, pensioner_id, insurance_payout_per_period, details) ==
    LET res == add_pension_insurance_result(caller, pensioner_id) IN
    /\ pensioner_insurances' =
           IF res.ok
           THEN MapInsert(pensioner_insurances, pensioner_id,
                          pushed_insurances(caller, pensioner_id,
                                            insurance_payout_per_period,
                                            details))
           ELSE pensioner_insurances
    /\ last' = Call("add_pension_insurance", caller, pensioner_id, res)
    /\ UNCHANGED <<pensioners, company_authorizations, bank_authorizations,
                   tax_office_authorizations, pensioner_tax_config,
                   spouse_death_benefits, contract_owner>>

(* apply_pension_tax_rate that keeps the tax office that stored the first  *)
(* config.                                                                 *)
apply_pension_tax_rate_first_office(caller, pensioner_id, tax_rate_percentage) ==
    LET res == apply_pension_tax_rate_result(caller, pensioner_id,
                                             tax_rate_percentage)
        office == IF MapContains(pensioner_tax_config, pensioner_id)
                  THEN MapValue(pensioner_tax_config, pensioner_id)
                           .tax_office_id
                  ELSE caller IN
    /\ pensioner_tax_config' =
           IF res.ok
           THEN MapInsert(pensioner_tax_config, pensioner_id,
                          [tax_office_id |-> office,
                           tax_rate_percentage |-> tax_rate_percentage])
           ELSE pensioner_tax_config
    /\ last' = Call("apply_pension_tax_rate", caller, pensioner_id, res)
    /\ UNCHANGED <<pensioners, company_authorizations, bank_authorizations,
                   tax_office_authorizations, pensioner_insurances,
                   spouse_death_benefits, contract_owner>>

(* apply_pension_tax_rate with the rate validated after the insert.        *)
apply_pension_tax_rate_store_first(caller, pensioner_id, tax_rate_percentage) ==
    LET res == apply_pension_tax_rate_result(caller, pensioner_id,
                                             tax_rate_percentage) IN
    /\ pensioner_tax_config' =
           IF res.ok \/ res.err = "InvalidInput"
           THEN MapInsert(pensioner_tax_config, pensioner_id,
                          [tax_office_id |-> caller,
                           tax_rate_percentage |-> tax_rate_percentage])
           ELSE pensioner_tax_config
    /\ last' = Call("apply_pension_tax_rate", caller, pensioner_id, res)
    /\ UNCHANGED <<pensioners, company_authorizations, bank_authorizations,
                   tax_office_authorizations, pensioner_insurances,
                   spouse_death_benefits, contract_owner>>

apply_pension_tax_rate(caller, pensioner_id, tax_rate_percentage) ==
    LET res == apply_pension_tax_rate_result(caller, pensioner_id,
                                             tax_rate_percentage) IN
    /\ pensioner_tax_config' =
           IF res.ok
           THEN MapInsert(pensioner_tax_config, pensioner_id,
                          [tax_office_id |-> caller,
                           tax_rate_percentage |-> tax_rate_percentage])
           ELSE pensioner_tax_config
    /\ last' = Call("apply_pension_tax_rate", caller, pensioner_id, res)
    /\ UNCHANGED <<pensioners, company_authorizations, bank_authorizations,
                   tax_office_authorizations, pensioner_insurances,
                   spouse_death_benefits, contract_owner>>

(* set_age_eligibility_status that also stops a running pension when the   *)
(* eligibility is revoked.                                                 *)
set_age_eligibility_status_stopping(caller, pensioner_id, is_eligible) ==
    LET res == set_age_eligibility_status_result(caller, pensioner_id) IN
    /\ pensioners' =
           IF res.ok
           THEN MapInsert(pensioners, pensioner_id,
                          [MapValue(pensioners, pensioner_id) EXCEPT
                               !.is_eligible_for_payout_age_wise = is_eligible,
                               !.is_receiving_pension =
                                   IF is_eligible THEN @ ELSE FALSE])
           ELSE pensioners
    /\ last' = Call("set_age_eligibility_status", caller, pensioner_id, res)
    /\ UNCHANGED <<company_authorizations, bank_authorizations,
                   tax_office_authorizations, pensioner_insurances,
                   pensioner_tax_config, spouse_death_benefits, contract_owner>>

set_age_eligibility_status(caller, pensioner_id, is_eligible) ==
    LET res == set_age_eligibility_status_result(caller, pensioner_id) IN
    /\ pensioners' =
           IF res.ok
           THEN MapInsert(pensioners, pensioner_id,
                          [MapValue(pensioners, pensioner_id) EXCEPT
                               !.is_eligible_for_payout_age_wise = is_eligible])
           ELSE pensioners
    /\ last' = Call("set_age_eligibility_status", caller, pensioner_id, res)
    /\ UNCHANGED <<company_authorizations, bank_authorizations,
                   tax_office_authorizations, pensioner_insurances,
                   pensioner_tax_config, spouse_death_benefits, contract_owner>>

(* paying_record without the line that marks the pension as running.      *)
paying_record_amount_only(pensioner_data, calculated_payout) ==
    [pensioner_data EXCEPT !.pension_payout_amount = Some(calculated_payout)]

(* The record written by initiate_pension_payout without the amount.       *)
paying_record_flag_only(pensioner_data, calculated_payout) ==
    [pensioner_data EXCEPT !.is_receiving_pension = TRUE]

(* The record initiate_pension_payout stores on success.                   *)
paying_record(pensioner_data, calculated_payout) ==
    [pensioner_data EXCEPT !.pension_payout_amount = Some(calculated_payout),
                           !.is_receiving_pension = TRUE]

initiate_pension_payout(caller) ==
    LET res == initiate_pension_payout_result(caller) IN
    /\ pensioners' =
           IF res.ok
           THEN MapInsert(pensioners, caller,
                          paying_record(MapValue(pensioners, caller), res.val[1]))
           ELSE pensioners
    /\ last' = Call("initiate_pension_payout", caller, caller, res)
    /\ UNCHANGED <<company_authorizations, bank_authorizations,
                   tax_office_authorizations, pensioner_insurances,
                   pensioner_tax_config, spouse_death_benefits, contract_owner>>

(* designate_spouse_beneficiary that also names the caller in the record   *)
(* of the spouse.                                                          *)
designate_spouse_beneficiary_mutual(caller, spouse_id) ==
    LET res == designate_spouse_beneficiary_result(caller)
        own == MapInsert(pensioners, caller,
                         [MapValue(pensioners, caller) EXCEPT
                              !.spouse_beneficiary = Some(spouse_id)])
    IN
    /\ pensioners' =
           IF ~res.ok THEN pensioners
           ELSE IF MapContains(own, spouse_id)
           THEN MapInsert(own, spouse_id,
                          [MapValue(own, spouse_id) EXCEPT
                               !.spouse_beneficiary = Some(caller)])
           ELSE own
    /\ last' = Call("designate_spouse_beneficiary", caller, spouse_id, res)
    /\ UNCHANGED <<company_authorizations, bank_authorizations,
                   tax_office_authorizations, pensioner_insurances,
                   pensioner_tax_config, spouse_death_benefits, contract_owner>>

designate_spouse_beneficiary(caller, spouse_id) ==
    LET res == designate_spouse_beneficiary_result(caller) IN
    /\ pensioners' =
           IF res.ok
           THEN MapInsert(pensioners, caller,
                          [MapValue(pensioners, caller) EXCEPT
                               !.spouse_beneficiary = Some(spouse_id)])
           ELSE pensioners
    /\ last' = Call("designate_spouse_beneficiary", caller, spouse_id, res)
    /\ UNCHANGED <<company_authorizations, bank_authorizations,
                   tax_office_authorizations, pensioner_insurances,
                   pensioner_tax_config, spouse_death_benefits, contract_owner>>

(* deceased_record without the line that stops a running pension.         *)
deceased_record_still_paying(pensioner_data) ==
    [pensioner_data EXCEPT !.is_deceased = TRUE]

(* The record report_death_and_assign_spouse_benefit stores on success.    *)
(* The record written by a death report that also forgets the payout.      *)
deceased_record_amount_cleared(pensioner_data) ==
    [pensioner_data EXCEPT !.is_deceased = TRUE,
                           !.is_receiving_pension = FALSE,
                           !.pension_payout_amount = None]

(* The record written by a death report that also forgets the spouse.      *)
deceased_record_spouse_cleared(pensioner_data) ==
    [pensioner_data EXCEPT !.is_deceased = TRUE,
                           !.is_receiving_pension = FALSE,
                           !.spouse_beneficiary = None]

deceased_record(pensioner_data) ==
    [pensioner_data EXCEPT !.is_deceased = TRUE,
                           !.is_receiving_pension = FALSE]

(* A death report that only the owner may file.                            *)
report_death_by_owner(caller, deceased_pensioner_id) ==
    LET res == IF ensure_owner(caller)
               THEN report_death_and_assign_spouse_benefit_result(
                        deceased_pensioner_id)
               ELSE Err("Unauthorized") IN
    /\ pensioners' =
           IF res.ok
           THEN MapInsert(pensioners, deceased_pensioner_id,
                          deceased_record(MapValue(pensioners,
                                                   deceased_pensioner_id)))
           ELSE pensioners
    /\ spouse_death_benefits' =
           IF res.ok /\ res.val[1] # None
           THEN MapInsert(spouse_death_benefits,
                          MapValue(pensioners, deceased_pensioner_id)
                              .spouse_beneficiary[1],
                          res.val[1][1])
           ELSE spouse_death_benefits
    /\ last' = Call("report_death_and_assign_spouse_benefit", caller,
                    deceased_pensioner_id, res)
    /\ UNCHANGED <<company_authorizations, bank_authorizations,
                   tax_office_authorizations, pensioner_insurances,
                   pensioner_tax_config, contract_owner>>

(* A death report that adds the benefit to what the spouse already has.    *)
report_death_accumulating(caller, deceased_pensioner_id) ==
    LET res == report_death_and_assign_spouse_benefit_result(
                   deceased_pensioner_id)
        spouse_id == MapValue(pensioners, deceased_pensioner_id)
                         .spouse_beneficiary[1] IN
    /\ pensioners' =
           IF res.ok
           THEN MapInsert(pensioners, deceased_pensioner_id,
                          deceased_record(MapValue(pensioners,
                                                   deceased_pensioner_id)))
           ELSE pensioners
    /\ spouse_death_benefits' =
           IF res.ok /\ res.val[1] # None
           THEN MapInsert(spouse_death_benefits, spouse_id,
                          saturating_add(
                              unwrap_or(spouse_death_benefits[spouse_id], 0),
                              res.val[1][1]))
           ELSE spouse_death_benefits
    /\ last' = Call("report_death_and_assign_spouse_benefit", caller,
                    deceased_pensioner_id, res)
    /\ UNCHANGED <<company_authorizations, bank_authorizations,
                   tax_office_authorizations, pensioner_insurances,
                   pensioner_tax_config, contract_owner>>

report_death_and_assign_spouse_benefit(caller, deceased_pensioner_id) ==
    LET res == report_death_and_assign_spouse_benefit_result(
                   deceased_pensioner_id) IN
    /\ pensioners' =
           IF res.ok
           THEN MapInsert(pensioners, deceased_pensioner_id,
                          deceased_record(MapValue(pensioners,
                                                   deceased_pensioner_id)))
           ELSE pensioners
    /\ spouse_death_benefits' =
           IF res.ok /\ res.val[1] # None
           THEN MapInsert(spouse_death_benefits,
                          MapValue(pensioners, deceased_pensioner_id)
                              .spouse_beneficiary[1],
                          res.val[1][1])
           ELSE spouse_death_benefits
    /\ last' = Call("report_death_and_assign_spouse_benefit", caller,
                    deceased_pensioner_id, res)
    /\ UNCHANGED <<company_authorizations, bank_authorizations,
                   tax_office_authorizations, pensioner_insurances,
                   pensioner_tax_config, contract_owner>>

get_my_future_payout(caller) ==
    /\ last' = Call("get_my_future_payout", caller, caller,
                    get_my_future_payout_result(caller))
    /\ UNCHANGED storage

---------------------------------------------------------------------------
(* The environment: who calls, and with which arguments.                   *)

Accounts == {"alice", "bob", "django", "eve"}

EmptyMap == [k \in Accounts |-> None]

Deployers == {"alice"}

MaxInsurances == 1

InsuranceRoom(pensioner_id) ==
    IF MapContains(pensioner_insurances, pensioner_id)
    THEN Len(MapValue(pensioner_insurances, pensioner_id)) < MaxInsurances
    ELSE TRUE

(* A constructor that makes alice the owner whoever deploys.               *)
new_owner_alice(caller) ==
    /\ pensioners = EmptyMap
    /\ company_authorizations = {}
    /\ bank_authorizations = {}
    /\ tax_office_authorizations = {}
    /\ pensioner_insurances = EmptyMap
    /\ pensioner_tax_config = EmptyMap
    /\ spouse_death_benefits = EmptyMap
    /\ contract_owner = "alice"
    /\ last = Call("new", caller, caller, Ok(<<>>))

(* new(): the caller becomes the owner and every mapping is empty.         *)
new(caller) ==
    /\ pensioners = EmptyMap
    /\ company_authorizations = {}
    /\ bank_authorizations = {}
    /\ tax_office_authorizations = {}
    /\ pensioner_insurances = EmptyMap
    /\ pensioner_tax_config = EmptyMap
    /\ spouse_death_benefits = EmptyMap
    /\ contract_owner = caller
    /\ last = Call("new", caller, caller, Ok(<<>>))

Init == \E caller \in Deployers : new(caller)

(* One message, with the caller and the arguments drawn from the sets of  *)
(* the environment D.                                                      *)
Message(D) ==
    \/ \E caller \in D.owner_callers, id \in D.company_ids :
           register_company(caller, id)
    \/ \E caller \in D.owner_callers, id \in D.company_ids :
           unregister_company(caller, id)
    \/ \E caller \in D.owner_callers, id \in D.bank_ids :
           register_bank(caller, id)
    \/ \E caller \in D.owner_callers, id \in D.bank_ids :
           unregister_bank(caller, id)
    \/ \E caller \in D.owner_callers, id \in D.tax_office_ids :
           register_tax_office(caller, id)
    \/ \E caller \in D.owner_callers, id \in D.tax_office_ids :
           unregister_tax_office(caller, id)
    \/ \E caller \in D.company_callers, id \in D.pensioner_ids,
          e \in D.employment :
           update_pensioner_employment(caller, id, e[1], e[2], e[3])
    \/ \E caller \in D.bank_callers, id \in D.pensioner_ids,
          i \in D.insurance :
           /\ InsuranceRoom(id)
           /\ add_pension_insurance(caller, id, i[1], i[2])
    \/ \E caller \in D.tax_office_callers, id \in D.pensioner_ids,
          r \in D.tax_rates :
           apply_pension_tax_rate(caller, id, r)
    \/ \E caller \in D.owner_callers, id \in D.pensioner_ids, b \in BOOLEAN :
           set_age_eligibility_status(caller, id, b)
    \/ \E caller \in D.pensioner_callers : initiate_pension_payout(caller)
    \/ \E caller \in D.pensioner_callers, id \in D.spouse_ids :
           designate_spouse_beneficiary(caller, id)
    \/ \E caller \in D.reporters, id \in D.pensioner_ids :
           report_death_and_assign_spouse_benefit(caller, id)
    \/ \E caller \in D.pensioner_callers : get_my_future_payout(caller)

(* The environment of Spec: one company, one bank, one tax office, one     *)
(* pensioner with a spouse, and for each message a caller who is allowed   *)
(* to send it and one who is not.                                          *)
Ledger ==
    [owner_callers |-> {"alice", "django"},
     company_callers |-> {"django", "alice"},
     bank_callers |-> {"eve", "django"},
     tax_office_callers |-> {"eve", "bob"},
     pensioner_callers |-> {"bob", "eve"},
     reporters |-> {"alice", "bob"},
     company_ids |-> {"django"},
     bank_ids |-> {"eve"},
     tax_office_ids |-> {"eve"},
     pensioner_ids |-> {"bob"},
     spouse_ids |-> {"eve"},
     employment |-> {<<20, 60000, "Active">>, <<1, 99, "LaidOff">>},
     insurance |-> {<<10000, "life">>},
     tax_rates |-> {10, 101}]

Next == Message(Ledger)

Spec == Init /\ [][Next]_vars

(* The environment of SpecRoles: every caller sends every role-guarded    *)
(* message, and two identities can be registered in each role, one of them *)
(* the owner for the company role; the ledger is kept small.               *)
Roles ==
    [owner_callers |-> {"alice", "django", "eve"},
     company_callers |-> {"alice", "django", "eve"},
     bank_callers |-> {"alice", "django", "eve"},
     tax_office_callers |-> {"alice", "django", "eve"},
     pensioner_callers |-> {"django"},
     reporters |-> {"eve"},
     company_ids |-> {"django", "alice"},
     bank_ids |-> {"django", "eve"},
     tax_office_ids |-> {"eve"},
     pensioner_ids |-> {"bob"},
     spouse_ids |-> {"eve"},
     employment |-> {<<20, 60000, "Active">>},
     insurance |-> {<<10000, "life">>},
     tax_rates |-> {10}]

NextRoles == Message(Roles)

SpecRoles == Init /\ [][NextRoles]_vars

(* SpecCalc: the payout engine on its own.  The contract has been          *)
(* deployed by alice, who registered django as company and eve as bank and *)
(* tax office; django recorded bob's employment, eve his insurances and    *)
(* tax rate, each drawn from the sets below, and the last message was      *)
(* django's employment update.  From there bob asks for his payout or      *)
(* initiates it, or his death is reported.                                 *)
CalcSalaries == {0, 99, 100, 60000, BalanceMax}

CalcYears == {0, 1, 20, 60, U32Max}

CalcAmounts == {10000, BalanceMax}

CalcTaxRates == {0, 10, 33, 100}

CalcInsuranceLists ==
    UNION {[1..n -> {[bank_id |-> "eve", insurance_payout_per_period |-> a,
                      details |-> "life"] : a \in CalcAmounts}]
           : n \in 1..MaxInsurances}

InitCalc ==
    /\ contract_owner = "alice"
    /\ company_authorizations = {"django"}
    /\ bank_authorizations = {"eve"}
    /\ tax_office_authorizations = {"eve"}
    /\ \E years \in CalcYears, salary \in CalcSalaries,
          eligible \in BOOLEAN, spouse \in {None, Some("eve")} :
           pensioners =
               MapInsert(EmptyMap, "bob",
                         [default_pensioner_data EXCEPT
                              !.years_worked = years,
                              !.current_salary = salary,
                              !.is_eligible_for_payout_age_wise = eligible,
                              !.spouse_beneficiary = spouse])
    /\ \/ pensioner_insurances = EmptyMap
       \/ \E insurances \in CalcInsuranceLists :
              pensioner_insurances = MapInsert(EmptyMap, "bob", insurances)
    /\ \/ pensioner_tax_config = EmptyMap
       \/ \E rate \in CalcTaxRates :
              pensioner_tax_config =
                  MapInsert(EmptyMap, "bob",
                            [tax_office_id |-> "eve",
                             tax_rate_percentage |-> rate])
    /\ spouse_death_benefits = EmptyMap
    /\ last = Call("update_pensioner_employment", "django", "bob", Ok(<<>>))

NextCalc ==
    \/ get_my_future_payout("bob")
    \/ initiate_pension_payout("bob")
    \/ \E caller \in {"alice", "bob"} :
           report_death_and_assign_spouse_benefit(caller, "bob")

SpecCalc == InitCalc /\ [][NextCalc]_vars

(* SpecSpouse: two pensioners and their spouses.  After deployment by      *)
(* alice, django is registered as company and records the employment of    *)
(* bob and of eve, alice sets bob's eligibility, bob and eve designate eve *)
(* or alice as spouse and initiate their payouts, and anyone reports the   *)
(* death of bob or of eve.                                                 *)
NextSpouse ==
    \/ register_company("alice", "django")
    \/ \E pensioner_id \in {"bob", "eve"}, e \in Ledger.employment :
           update_pensioner_employment("django", pensioner_id,
                                       e[1], e[2], e[3])
    \/ \E is_eligible \in BOOLEAN :
           set_age_eligibility_status("alice", "bob", is_eligible)
    \/ \E caller \in {"bob", "eve"}, spouse_id \in {"eve", "alice"} :
           designate_spouse_beneficiary(caller, spouse_id)
    \/ \E caller \in {"bob", "eve"} : initiate_pension_payout(caller)
    \/ \E caller \in Accounts, pensioner_id \in {"bob", "eve"} :
           report_death_and_assign_spouse_benefit(caller, pensioner_id)

SpecSpouse == Init /\ [][NextSpouse]_vars

(* SpecOffices: two banks and two tax offices serve one pensioner.  The    *)
(* contract has been deployed by alice, who registered django as company   *)
(* and eve and django both as bank and as tax office, and django recorded  *)
(* bob's employment.  From there either bank adds insurances of two        *)
(* amounts (up to MaxPolicies per pensioner), either tax office applies a  *)
(* rate, bob's employment changes, bob asks for his payout, and his death  *)
(* is reported.                                                            *)
MaxPolicies == 2

PolicyAmounts == {10000, 500}

OfficeRates == {10, 33, 101}

PolicyRoom(pensioner_id) ==
    IF MapContains(pensioner_insurances, pensioner_id)
    THEN Len(MapValue(pensioner_insurances, pensioner_id)) < MaxPolicies
    ELSE TRUE

InitOffices ==
    /\ contract_owner = "alice"
    /\ company_authorizations = {"django"}
    /\ bank_authorizations = {"eve", "django"}
    /\ tax_office_authorizations = {"eve", "django"}
    /\ pensioners =
           MapInsert(EmptyMap, "bob",
                     [default_pensioner_data EXCEPT !.years_worked = 20,
                                                    !.current_salary = 60000])
    /\ pensioner_insurances = EmptyMap
    /\ pensioner_tax_config = EmptyMap
    /\ spouse_death_benefits = EmptyMap
    /\ last = Call("update_pensioner_employment", "django", "bob", Ok(<<>>))

NextOffices ==
    \/ \E caller \in {"eve", "django"}, amount \in PolicyAmounts :
           /\ PolicyRoom("bob")
           /\ add_pension_insurance(caller, "bob", amount, "life")
    \/ \E caller \in {"eve", "django"}, rate \in OfficeRates :
           apply_pension_tax_rate(caller, "bob", rate)
    \/ update_pensioner_employment("django", "bob", 1, 99, "LaidOff")
    \/ get_my_future_payout("bob")
    \/ report_death_and_assign_spouse_benefit("alice", "bob")

SpecOffices == InitOffices /\ [][NextOffices]_vars

(* SpecOwner: the contract is deployed by alice or by django, and both of  *)
(* them send the owner's messages afterwards; every other message has one  *)
(* caller and one argument.                                                *)
InitOwner == \E caller \in {"alice", "django"} : new(caller)

Owners ==
    [owner_callers |-> {"alice", "django"},
     company_callers |-> {"django"},
     bank_callers |-> {"eve"},
     tax_office_callers |-> {"eve"},
     pensioner_callers |-> {"bob"},
     reporters |-> {"alice"},
     company_ids |-> {"django"},
     bank_ids |-> {"eve"},
     tax_office_ids |-> {"eve"},
     pensioner_ids |-> {"bob"},
     spouse_ids |-> {"eve"},
     employment |-> {<<20, 60000, "Active">>},
     insurance |-> {<<10000, "life">>},
     tax_rates |-> {10}]

NextOwner == Message(Owners)

SpecOwner == InitOwner /\ [][NextOwner]_vars

(* SpecOrder: one bank adds insurances of several amounts, among them the  *)
(* largest Balance, to bob's list in every order (up to MaxOrdered         *)
(* entries), a tax rate is applied, and bob asks for his payout.  The      *)
(* contract starts as in SpecOffices.                                      *)
MaxOrdered == 3

OrderAmounts == {500, 10000, BalanceMax - 10000, BalanceMax}

OrderRoom(pensioner_id) ==
    IF MapContains(pensioner_insurances, pensioner_id)
    THEN Len(MapValue(pensioner_insurances, pensioner_id)) < MaxOrdered
    ELSE TRUE

NextOrder ==
    \/ \E amount \in OrderAmounts :
           /\ OrderRoom("bob")
           /\ add_pension_insurance("eve", "bob", amount, "life")
    \/ apply_pension_tax_rate("eve", "bob", 10)
    \/ get_my_future_payout("bob")

SpecOrder == InitOffices /\ [][NextOrder]_vars

(* SpecRevoke: the contract after alice has registered django as company;  *)
(* she grants, revokes and grants again eve's roles of bank and of tax     *)
(* office while eve and the pensioner bob keep calling.                    *)
InitRevoke ==
    /\ contract_owner = "alice"
    /\ company_authorizations = {"django"}
    /\ bank_authorizations = {}
    /\ tax_office_authorizations = {}
    /\ pensioners = EmptyMap
    /\ pensioner_insurances = EmptyMap
    /\ pensioner_tax_config = EmptyMap
    /\ spouse_death_benefits = EmptyMap
    /\ last = Call("register_company", "alice", "django", Ok(<<>>))

NextRevoke ==
    \/ register_bank("alice", "eve")
    \/ unregister_bank("alice", "eve")
    \/ register_tax_office("alice", "eve")
    \/ unregister_tax_office("alice", "eve")
    \/ update_pensioner_employment("django", "bob", 20, 60000, "Active")
    \/ /\ InsuranceRoom("bob")
       /\ add_pension_insurance("eve", "bob", 10000, "life")
    \/ apply_pension_tax_rate("eve", "bob", 10)
    \/ set_age_eligibility_status("alice", "bob", TRUE)
    \/ get_my_future_payout("bob")
    \/ initiate_pension_payout("bob")
    \/ report_death_and_assign_spouse_benefit("alice", "bob")

SpecRevoke == InitRevoke /\ [][NextRevoke]_vars

(* SpecSelf: two pensioners next to the owner and the roles.  From the     *)
(* state of InitOffices (owner alice; django company, bank and tax office; *)
(* eve bank and tax office; bob recorded) django records eve as well, adds *)
(* insurances and a tax rate for both, alice makes both eligible, and      *)
(* every identity sends initiate_pension_payout and                        *)
(* designate_spouse_beneficiary, naming bob or eve as spouse.              *)
NextSelf ==
    \/ update_pensioner_employment("django", "eve", 20, 60000, "Active")
    \/ \E pensioner_id \in {"bob", "eve"} :
           set_age_eligibility_status("alice", pensioner_id, TRUE)
    \/ \E pensioner_id \in {"bob", "eve"} :
           /\ InsuranceRoom(pensioner_id)
           /\ add_pension_insurance("django", pensioner_id, 10000, "life")
    \/ \E pensioner_id \in {"bob", "eve"} :
           apply_pension_tax_rate("django", pensioner_id, 10)
    \/ \E caller \in Accounts, spouse_id \in {"bob", "eve"} :
           designate_spouse_beneficiary(caller, spouse_id)
    \/ \E caller \in Accounts : initiate_pension_payout(caller)

SpecSelf == InitOffices /\ [][NextSelf]_vars

(* SpecStoredRate: the contract after a tax config with a rate above 100   *)
(* was put into storage past apply_pension_tax_rate, as the test           *)
(* get_my_future_payout_invalid_tax_rate_in_storage does: alice deployed   *)
(* and registered django as company and eve as tax office, django recorded *)
(* bob's employment, and bob's stored rate is one of StoredRates.  From    *)
(* there bob's record is updated, made eligible, given a valid rate or a   *)
(* spouse, and the three calculating messages are sent.                    *)
StoredRates == {101, 150, U8Max}

InitStoredRate ==
    /\ contract_owner = "alice"
    /\ company_authorizations = {"django"}
    /\ bank_authorizations = {}
    /\ tax_office_authorizations = {"eve"}
    /\ pensioners =
           MapInsert(EmptyMap, "bob",
                     [default_pensioner_data EXCEPT !.years_worked = 10,
                                                    !.current_salary = 50000])
    /\ pensioner_insurances = EmptyMap
    /\ \E rate \in StoredRates :
           pensioner_tax_config =
               MapInsert(EmptyMap, "bob",
                         [tax_office_id |-> "eve",
                          tax_rate_percentage |-> rate])
    /\ spouse_death_benefits = EmptyMap
    /\ last = Call("update_pensioner_employment", "django", "bob", Ok(<<>>))

NextStoredRate ==
    \/ \E is_eligible \in BOOLEAN :
           set_age_eligibility_status("alice", "bob", is_eligible)
    \/ \E years_worked \in {10, 11} :
           update_pensioner_employment("django", "bob", years_worked, 50000,
                                       "Active")
    \/ apply_pension_tax_rate("eve", "bob", 10)
    \/ designate_spouse_beneficiary("bob", "eve")
    \/ \E caller \in {"bob", "eve"} : get_my_future_payout(caller)
    \/ \E caller \in {"bob", "eve"} : initiate_pension_payout(caller)
    \/ \E caller \in {"alice", "bob"} :
           report_death_and_assign_spouse_benefit(caller, "bob")

SpecStoredRate == InitStoredRate /\ [][NextStoredRate]_vars

---------------------------------------------------------------------------
(* Properties.                                                             *)

Stored(pensioner_id) == MapContains(pensioners, pensioner_id)

Data(pensioner_id) == MapValue(pensioners, pensioner_id)

Failed(call, error) == ~call.res.ok /\ call.res.err = error

(* C1: in every reachable state no pensioner record has is_deceased and    *)
(* is_receiving_pension both true.                                         *)
C1_NeverDeceasedAndReceiving ==
    \A p \in Accounts :
        Stored(p) => ~(Data(p).is_deceased /\ Data(p).is_receiving_pension)

(* A pensioner who was receiving a pension has just been reported dead.    *)
C1_Witness ==
    /\ last.op = "report_death_and_assign_spouse_benefit"
    /\ last.res.ok
    /\ Stored(last.id)
    /\ Data(last.id).is_deceased
    /\ Data(last.id).pension_payout_amount # None

OwnerOnlyOps ==
    {"register_company", "unregister_company", "register_bank",
     "unregister_bank", "register_tax_office", "unregister_tax_office",
     "set_age_eligibility_status"}

AuthorizationSets ==
    <<company_authorizations, bank_authorizations, tax_office_authorizations>>

(* Some stored record's is_eligible_for_payout_age_wise differs after the  *)
(* step.                                                                   *)
EligibilityChanged ==
    \E p \in Accounts :
        /\ Stored(p)
        /\ MapContains(pensioners', p)
        /\ MapValue(pensioners', p).is_eligible_for_payout_age_wise
               # Data(p).is_eligible_for_payout_age_wise

RoleGuard(op, authorized) ==
    last'.op = op =>
        /\ last'.res.ok => last'.caller \in authorized
        /\ last'.caller \notin authorized
               => Failed(last', "Unauthorized") /\ storage' = storage

C3_RoleGuards ==
    [][/\ RoleGuard("update_pensioner_employment", company_authorizations)
       /\ RoleGuard("add_pension_insurance", bank_authorizations)
       /\ RoleGuard("apply_pension_tax_rate", tax_office_authorizations)]_vars

(* A registered company that is no bank was refused when it tried to add   *)
(* an insurance to a stored pensioner.                                     *)
C3_Witness ==
    /\ last.op = "add_pension_insurance"
    /\ last.caller \in company_authorizations
    /\ last.caller \notin bank_authorizations
    /\ Stored(last.id)
    /\ Failed(last, "Unauthorized")

(* C4: authorization is role-scoped.  A caller registered only as a        *)
(* company gets Unauthorized from add_pension_insurance,                   *)
(* apply_pension_tax_rate and every owner-only message; likewise a caller  *)
(* registered only as a bank or only as a tax office for the other roles'  *)
(* messages; and the owner, registered in no role, gets Unauthorized from  *)
(* the three role-guarded messages.  Membership is taken in the state the  *)
(* call is made in.                                                        *)
RolesOf(caller) ==
    {r \in {"company", "bank", "tax_office"} :
        \/ r = "company" /\ caller \in company_authorizations
        \/ r = "bank" /\ caller \in bank_authorizations
        \/ r = "tax_office" /\ caller \in tax_office_authorizations}

C4_RoleScoped ==
    [][LET caller == last'.caller
           op == last'.op
           refused == Failed(last', "Unauthorized")
       IN /\ (caller # contract_owner /\ RolesOf(caller) = {"company"}
                /\ op \in {"add_pension_insurance", "apply_pension_tax_rate"}
                              \cup OwnerOnlyOps) => refused
          /\ (caller # contract_owner /\ RolesOf(caller) = {"bank"}
                /\ op \in {"update_pensioner_employment",
                           "apply_pension_tax_rate"} \cup OwnerOnlyOps)
                 => refused
          /\ (caller # contract_owner /\ RolesOf(caller) = {"tax_office"}
                /\ op \in {"update_pensioner_employment",
                           "add_pension_insurance"} \cup OwnerOnlyOps)
                 => refused
          /\ (caller = contract_owner /\ RolesOf(caller) = {}
                /\ op \in {"update_pensioner_employment",
                           "add_pension_insurance", "apply_pension_tax_rate"})
                 => refused]_vars

(* A caller registered as a company and nothing else was refused when it   *)
(* tried to set the tax rate of a stored pensioner, while a tax office was *)
(* registered.                                                             *)
C4_Witness ==
    /\ last.op = "apply_pension_tax_rate"
    /\ last.caller # contract_owner
    /\ RolesOf(last.caller) = {"company"}
    /\ tax_office_authorizations # {}
    /\ Stored(last.id)
    /\ Failed(last, "Unauthorized")

(* C5: initiate_pension_payout is once-only per pensioner.  A successful   *)
(* call stores the amount it returns; a stored amount never changes        *)
(* again, whatever message follows; and while an amount is stored every    *)
(* call by that pensioner returns PayoutNotApplicable and writes nothing.  *)
C5_InitiateOnce ==
    [][/\ (last'.op = "initiate_pension_payout" /\ last'.res.ok)
              => MapValue(pensioners', last'.caller).pension_payout_amount
                     = last'.res.val
       /\ \A p \in Accounts :
              (Stored(p) /\ Data(p).pension_payout_amount # None)
                  => /\ MapContains(pensioners', p)
                     /\ MapValue(pensioners', p).pension_payout_amount
                            = Data(p).pension_payout_amount
                     /\ (last'.op = "initiate_pension_payout"
                             /\ last'.caller = p)
                            => /\ Failed(last', "PayoutNotApplicable")
                               /\ storage' = storage]_vars

(* A pensioner who initiated the payout, whose eligibility was revoked and *)
(* tax rate set afterwards, called again and was refused.                  *)
C5_Witness ==
    /\ last.op = "initiate_pension_payout"
    /\ Failed(last, "PayoutNotApplicable")
    /\ Stored(last.caller)
    /\ Data(last.caller).pension_payout_amount # None
    /\ ~Data(last.caller).is_deceased
    /\ ~Data(last.caller).is_eligible_for_payout_age_wise
    /\ MapContains(pensioner_tax_config, last.caller)

(* C6: report_death_and_assign_spouse_benefit is one-shot per pensioner.   *)
(* A successful call leaves the record deceased and not receiving; a       *)
(* deceased record stays deceased and not receiving; and every call for a  *)
(* deceased pensioner returns AlreadyDeceased and writes nothing.          *)
C6_DeathOnce ==
    [][/\ (last'.op = "report_death_and_assign_spouse_benefit"
              /\ last'.res.ok)
              => /\ MapValue(pensioners', last'.id).is_deceased
                 /\ ~MapValue(pensioners', last'.id).is_receiving_pension
       /\ \A p \in Accounts :
              (Stored(p) /\ Data(p).is_deceased)
                  => /\ MapContains(pensioners', p)
                     /\ MapValue(pensioners', p).is_deceased
                     /\ ~MapValue(pensioners', p).is_receiving_pension
                     /\ (last'.op = "report_death_and_assign_spouse_benefit"
                             /\ last'.id = p)
                            => /\ Failed(last', "AlreadyDeceased")
                               /\ storage' = storage]_vars

(* The death of a pensioner who had been receiving a pension was reported  *)
(* a second time and refused.                                              *)
C6_Witness ==
    /\ last.op = "report_death_and_assign_spouse_benefit"
    /\ Failed(last, "AlreadyDeceased")
    /\ Data(last.id).pension_payout_amount # None
    /\ ~Data(last.id).is_receiving_pension

(* C7: a message that returns an error, which is one of the eight error    *)
(* kinds, leaves the three authorization sets and the four maps (and the   *)
(* owner) as they were.                                                    *)
C7_ErrorsWriteNothing ==
    [][~last'.res.ok => last'.res.err \in Error /\ storage' = storage]_vars

(* A registered tax office was refused a rate above 100 for a stored       *)
(* pensioner.                                                              *)
C7_Witness ==
    /\ last.op = "apply_pension_tax_rate"
    /\ Failed(last, "InvalidInput")
    /\ last.caller \in tax_office_authorizations
    /\ Stored(last.id)

(* floor(t * r / 100), computed without the intermediate product.         *)
ExactPercent(t, r) == (t \div 100) * r + ((t % 100) * r) \div 100

(* a * b is larger than the largest Balance.                               *)
Exceeds(a, b) == a # 0 /\ b > BalanceMax \div a

(* C8: for every gross total T and every stored tax rate R in 0..100 the   *)
(* payout calculation returns T - floor(T*R/100), which is not negative;   *)
(* with no tax config it returns T.                                        *)
C8_NetOfTax ==
    (last.op = "get_my_future_payout" /\ last.res.ok) =>
        LET total == total_estimated_payout(Data(last.caller), last.caller)
            net == last.res.val[1]
        IN IF MapContains(pensioner_tax_config, last.caller)
           THEN LET rate == MapValue(pensioner_tax_config, last.caller)
                                .tax_rate_percentage
                IN rate <= 100 =>
                       net = total - ExactPercent(total, rate) /\ net >= 0
           ELSE net = total

(* C9: for every salary S and years worked Y the base payout equals        *)
(* floor(S/100) * Y * 2; the base is what the calculation returns for a    *)
(* pensioner with no insurance and no tax config.                          *)
C9_BaseExact ==
    (/\ last.op = "get_my_future_payout"
     /\ last.res.ok
     /\ ~MapContains(pensioner_insurances, last.caller)
     /\ ~MapContains(pensioner_tax_config, last.caller)) =>
        last.res.val[1] = (Data(last.caller).current_salary \div 100)
                              * Data(last.caller).years_worked * 2

(* C10: a multiplication of the payout calculation that would exceed the   *)
(* largest Balance yields the largest Balance: the base of a pensioner     *)
(* with floor(salary/100) * years * 2 too large is BalanceMax, the tax on  *)
(* a total with total * rate too large is floor(BalanceMax / 100), and the *)
(* spouse benefit of a net payout with net * 20 too large is               *)
(* floor(BalanceMax / 100).                                                *)
C10_OverflowClamps ==
    /\ (/\ last.op = "get_my_future_payout"
        /\ last.res.ok
        /\ ~MapContains(pensioner_insurances, last.caller)
        /\ ~MapContains(pensioner_tax_config, last.caller)
        /\ LET q == Data(last.caller).current_salary \div 100
               y == Data(last.caller).years_worked
           IN Exceeds(q, y) \/ Exceeds(q * y, 2))
           => last.res.val[1] = BalanceMax
    /\ (/\ last.op = "get_my_future_payout"
        /\ last.res.ok
        /\ MapContains(pensioner_tax_config, last.caller)
        /\ Exceeds(total_estimated_payout(Data(last.caller), last.caller),
                   MapValue(pensioner_tax_config, last.caller)
                       .tax_rate_percentage))
           => last.res.val[1] =
                  total_estimated_payout(Data(last.caller), last.caller)
                      - BalanceMax \div 100
    /\ (/\ last.op = "report_death_and_assign_spouse_benefit"
        /\ last.res.ok
        /\ last.res.val[1] # None
        /\ LET net == calculate_pension_amount(
                          [Data(last.id) EXCEPT !.is_deceased = FALSE],
                          last.id).val[1]
           IN Exceeds(net, 20))
           => last.res.val[1][1] = BalanceMax \div 100

(* C11: a successful death report for a pensioner with a designated spouse *)
(* returns Some(b) and stores b for the spouse, where b = floor(n*20/100)  *)
(* and n is the net payout computed from the record, insurances and tax    *)
(* config just before the death is recorded; with no spouse it returns     *)
(* Ok(None) and the spouse-benefit map is unchanged.                       *)
C11_SpouseBenefit ==
    [][(last'.op = "report_death_and_assign_spouse_benefit" /\ last'.res.ok)
        => LET p == last'.id
               n == calculate_pension_amount(Data(p), p).val[1]
               s == Data(p).spouse_beneficiary
           IN IF s # None
              THEN /\ last'.res.val = <<Some(ExactPercent(n, 20))>>
                   /\ spouse_death_benefits' =
                          MapInsert(spouse_death_benefits, s[1],
                                    ExactPercent(n, 20))
              ELSE /\ last'.res.val = <<None>>
                   /\ spouse_death_benefits' = spouse_death_benefits]_vars

(* The stored tax rate of a pensioner is above 100.                        *)
StoredRateInvalid(pensioner_id) ==
    /\ MapContains(pensioner_tax_config, pensioner_id)
    /\ MapValue(pensioner_tax_config, pensioner_id).tax_rate_percentage > 100

(* The pensioner whose payout a calculating message is about.              *)
CalculatingOps ==
    {"get_my_future_payout", "initiate_pension_payout",
     "report_death_and_assign_spouse_benefit"}

Subject(call) ==
    IF call.op = "report_death_and_assign_spouse_benefit" THEN call.id
    ELSE call.caller

(* The message passes every check that precedes the calculation.           *)
ReachesCalculation(call) ==
    /\ Stored(Subject(call))
    /\ ~Data(Subject(call)).is_deceased
    /\ call.op = "initiate_pension_payout" =>
           /\ ~Data(Subject(call)).is_receiving_pension
           /\ Data(Subject(call)).is_eligible_for_payout_age_wise

(* C12 as stated: whenever the stored tax rate of a pensioner is above     *)
(* 100, every get_my_future_payout, initiate_pension_payout and            *)
(* report_death_and_assign_spouse_benefit for that pensioner returns       *)
(* InvalidInput.                                                           *)
C12_AlwaysInvalidInput ==
    [][(last'.op \in CalculatingOps /\ StoredRateInvalid(Subject(last')))
        => Failed(last', "InvalidInput")]_vars

(* C12, amended: whenever the stored tax rate of a pensioner is above 100, *)
(* each of the three messages that reaches the calculation (the record     *)
(* exists and is not deceased and, for initiate_pension_payout, is         *)
(* eligible and not yet receiving) returns InvalidInput and writes         *)
(* nothing; a message stopped by an earlier check returns that check's     *)
(* error, never an amount, and writes nothing either.                      *)
C12_InvalidStoredRate ==
    [][(last'.op \in CalculatingOps /\ StoredRateInvalid(Subject(last')))
        => /\ ~last'.res.ok
           /\ storage' = storage
           /\ ReachesCalculation(last') => Failed(last', "InvalidInput")
           /\ ~ReachesCalculation(last') =>
                  last'.res.err \in {"PensionerNotFound",
                                     "PayoutNotApplicable",
                                     "NotYetEligibleForPayout",
                                     "AlreadyDeceased"}]_vars

C12_Witness ==
    /\ last.op = "initiate_pension_payout"
    /\ Failed(last, "InvalidInput")
    /\ StoredRateInvalid(last.caller)
    /\ Data(last.caller).is_eligible_for_payout_age_wise
    /\ ~Data(last.caller).is_receiving_pension
    /\ Data(last.caller).pension_payout_amount = None

(* C13: apply_pension_tax_rate with a rate above 100 returns InvalidInput  *)
(* (after the checks of the caller and of the record) and stores nothing,  *)
(* so in every reachable state every stored tax config has a rate of at    *)
(* most 100.                                                               *)
C13_RateAtMost100 ==
    /\ [](/\ \A p \in Accounts :
               MapContains(pensioner_tax_config, p) =>
                   MapValue(pensioner_tax_config, p).tax_rate_percentage
                       <= 100
          /\ \A caller \in Accounts, p \in Accounts, r \in StoredRates :
               LET res == apply_pension_tax_rate_result(caller, p, r) IN
               /\ ~res.ok
               /\ (caller \in tax_office_authorizations /\ Stored(p)) =>
                      res.err = "InvalidInput")
    /\ [][(last'.op = "apply_pension_tax_rate"
           /\ Failed(last', "InvalidInput")) => storage' = storage]_vars

C13_Witness ==
    /\ last.op = "apply_pension_tax_rate"
    /\ Failed(last, "InvalidInput")
    /\ MapContains(pensioner_tax_config, last.id)
    /\ MapValue(pensioner_tax_config, last.id).tax_rate_percentage = 10

(* C14: once a pensioner record is deceased no later operation, in         *)
(* particular no update_pensioner_employment by an authorized company,     *)
(* writes the employment status Active to it.                              *)
C14_NoActiveAfterDeath ==
    [][\A p \in Accounts :
           (Stored(p) /\ Data(p).is_deceased) =>
               /\ ~(/\ last'.op = "update_pensioner_employment"
                    /\ last'.res.ok
                    /\ last'.id = p
                    /\ MapValue(pensioners', p).status = "Active")
               /\ (Data(p).status # "Active" =>
                       MapValue(pensioners', p).status # "Active")]_vars

(* C15: is_deceased never reverts: a record that is deceased is still      *)
(* stored and deceased after every step, whatever the message and the      *)
(* caller.                                                                 *)
C15_DeceasedForever ==
    [][\A p \in Accounts :
           (Stored(p) /\ Data(p).is_deceased) =>
               /\ MapContains(pensioners', p)
               /\ MapValue(pensioners', p).is_deceased]_vars

C15_Witness ==
    /\ last.op = "update_pensioner_employment"
    /\ last.res.ok
    /\ Stored(last.id)
    /\ Data(last.id).is_deceased
    /\ Data(last.id).spouse_beneficiary # None

Spouse(map, pensioner_id) == MapValue(map, pensioner_id).spouse_beneficiary

(* C16: spouse_beneficiary is immutable after death and settable while     *)
(* alive: designate_spouse_beneficiary by a deceased pensioner returns     *)
(* PayoutNotApplicable and the stored spouse of a deceased record never    *)
(* changes; by a living pensioner it succeeds and overwrites the stored    *)
(* spouse with its argument; no other message changes the stored spouse.   *)
C16_SpouseFixedAtDeath ==
    [][\A p \in Accounts :
           Stored(p) =>
               LET designates == /\ last'.op = "designate_spouse_beneficiary"
                                 /\ last'.caller = p
               IN /\ Data(p).is_deceased =>
                         /\ Spouse(pensioners', p) = Spouse(pensioners, p)
                         /\ designates => Failed(last', "PayoutNotApplicable")
                  /\ (~Data(p).is_deceased /\ designates) =>
                         /\ last'.res.ok
                         /\ Spouse(pensioners', p) = Some(last'.id)
                  /\ ~designates =>
                         Spouse(pensioners', p) = Spouse(pensioners, p)]_vars

C16_Witness ==
    /\ last.op = "designate_spouse_beneficiary"
    /\ Failed(last, "PayoutNotApplicable")
    /\ last.id = "eve"
    /\ Data(last.caller).is_deceased
    /\ Data(last.caller).spouse_beneficiary = Some("alice")
    /\ MapContains(spouse_death_benefits, "alice")

Amount(map, pensioner_id) == MapValue(map, pensioner_id).pension_payout_amount

(* C17: pension_payout_amount is set once: a record is created with None,  *)
(* None becomes Some(v) only by the pensioner's own successful             *)
(* initiate_pension_payout returning v, and Some(v) stays Some(v) after    *)
(* every later step, whatever changes in salary, years, insurances, tax    *)
(* config or is_deceased.                                                  *)
C17_AmountSetOnce ==
    [][\A p \in Accounts :
           /\ (~Stored(p) /\ MapContains(pensioners', p)) =>
                  Amount(pensioners', p) = None
           /\ (Stored(p) /\ Amount(pensioners, p) # None) =>
                  /\ MapContains(pensioners', p)
                  /\ Amount(pensioners', p) = Amount(pensioners, p)
           /\ (/\ Stored(p)
               /\ Amount(pensioners, p) = None
               /\ Amount(pensioners', p) # None) =>
                  /\ last'.op = "initiate_pension_payout"
                  /\ last'.caller = p
                  /\ last'.res.ok
                  /\ Amount(pensioners', p) = last'.res.val]_vars

C17_Witness ==
    /\ last.op = "update_pensioner_employment"
    /\ last.res.ok
    /\ Data(last.id).is_deceased
    /\ Data(last.id).pension_payout_amount # None
    /\ calculate_pension_amount(
           [Data(last.id) EXCEPT !.is_deceased = FALSE], last.id).val
       # Data(last.id).pension_payout_amount

(* The fields of a record that update_pensioner_employment does not set.   *)
KeptFields(pensioner_data) ==
    [f \in {"is_deceased", "is_receiving_pension",
            "is_eligible_for_payout_age_wise", "pension_payout_amount",
            "spouse_beneficiary"} |-> pensioner_data[f]]

(* C18: a successful update_pensioner_employment on an existing record     *)
(* overwrites only years_worked, current_salary and status: the other     *)
(* five fields of the record, every other pensioner's record, and the      *)
(* insurance, tax, spouse-benefit and authorization maps (and the owner)   *)
(* are unchanged.                                                          *)
C18_EmploymentFrame ==
    [][(last'.op = "update_pensioner_employment" /\ last'.res.ok) =>
           /\ Stored(last'.id) =>
                  KeptFields(MapValue(pensioners', last'.id))
                      = KeptFields(Data(last'.id))
           /\ \A q \in Accounts \ {last'.id} : pensioners'[q] = pensioners[q]
           /\ UNCHANGED <<company_authorizations, bank_authorizations,
                          tax_office_authorizations, pensioner_insurances,
                          pensioner_tax_config, spouse_death_benefits,
                          contract_owner>>]_vars

C18_Witness ==
    /\ last.op = "update_pensioner_employment"
    /\ last.res.ok
    /\ Data(last.id).is_eligible_for_payout_age_wise
    /\ Data(last.id).is_receiving_pension
    /\ Data(last.id).spouse_beneficiary # None
    /\ \E q \in Accounts \ {last.id} :
           Stored(q) /\ Data(q).spouse_beneficiary # None

(* The record the spec prescribes for a first employment update.           *)
FreshRecord(years_worked, current_salary, status) ==
    [years_worked |-> years_worked, current_salary |-> current_salary,
     status |-> status, is_deceased |-> FALSE,
     is_receiving_pension |-> FALSE,
     is_eligible_for_payout_age_wise |-> FALSE,
     pension_payout_amount |-> None, spouse_beneficiary |-> None]

(* C19: update_pensioner_employment by an authorized company for an        *)
(* identity with no record creates the record with the given years,        *)
(* salary and status and with is_deceased, is_receiving_pension and        *)
(* is_eligible_for_payout_age_wise false and pension_payout_amount and     *)
(* spouse_beneficiary None; no other message creates a record.             *)
C19_LazyCreation ==
    /\ [](\A p \in Accounts, e \in Ledger.employment :
              ~Stored(p) =>
                  updated_employment(p, e[1], e[2], e[3])
                      = FreshRecord(e[1], e[2], e[3]))
    /\ [][/\ \A p \in Accounts :
                (~Stored(p) /\ MapContains(pensioners', p)) =>
                    /\ last'.op = "update_pensioner_employment"
                    /\ last'.res.ok
                    /\ last'.id = p
                    /\ last'.caller \in company_authorizations
                    /\ \E e \in Ledger.employment :
                           MapValue(pensioners', p)
                               = FreshRecord(e[1], e[2], e[3])
          /\ (/\ last'.op = "update_pensioner_employment"
              /\ last'.caller \in company_authorizations) =>
                 /\ last'.res.ok
                 /\ MapContains(pensioners', last'.id)]_vars

C19_Witness ==
    /\ last.op = "update_pensioner_employment"
    /\ last.res.ok
    /\ Data(last.id) = FreshRecord(1, 99, "LaidOff")
    /\ bank_authorizations # {}
    /\ tax_office_authorizations # {}

(* What register and unregister of one role do to the identity id on a     *)
(* step by the owner.                                                      *)
Registry(register, unregister, authorizations, is_authorized(_), id) ==
    /\ last'.op = register =>
           IF id \in authorizations
           THEN Failed(last', "AlreadyRegistered") /\ UNCHANGED authorizations
           ELSE /\ last'.res.ok
                /\ authorizations' = authorizations \cup {id}
                /\ is_authorized(id)'
    /\ last'.op = unregister =>
           IF id \notin authorizations
           THEN Failed(last', "NotRegistered") /\ UNCHANGED authorizations
           ELSE /\ last'.res.ok
                /\ authorizations' = authorizations \ {id}
                /\ ~is_authorized(id)'

(* C20: for each role and the owner as caller, register of an identity     *)
(* already in the role's set returns AlreadyRegistered, otherwise inserts  *)
(* it so that is_*_authorized then returns true; unregister of an identity *)
(* not in the set returns NotRegistered, otherwise removes it so that      *)
(* is_*_authorized then returns false.                                     *)
C20_Registry ==
    [][\A id \in Accounts :
           (last'.caller = contract_owner /\ last'.id = id) =>
               /\ Registry("register_company", "unregister_company",
                           company_authorizations, is_company_authorized,
                           id)
               /\ Registry("register_bank", "unregister_bank",
                           bank_authorizations, is_bank_authorized, id)
               /\ Registry("register_tax_office", "unregister_tax_office",
                           tax_office_authorizations,
                           is_tax_office_authorized, id)]_vars

C20_Witness ==
    /\ last.op = "unregister_tax_office"
    /\ last.res.ok
    /\ ~is_tax_office_authorized(last.id)
    /\ is_company_authorized("django")
    /\ is_bank_authorized("eve")
    /\ MapContains(pensioner_tax_config, "bob")

(* The insurance list of a pensioner, empty when none is stored.           *)
Insurances(map, pensioner_id) ==
    IF MapContains(map, pensioner_id) THEN MapValue(map, pensioner_id)
    ELSE <<>>

(* C21: the insurance list of a pensioner is append-only and keeps the     *)
(* order of insertion: a successful add_pension_insurance appends exactly  *)
(* the entry {bank_id = caller, amount, details} at the end, every other   *)
(* step leaves the stored list as it is, and so the list before a step is  *)
(* a prefix of the list after it.                                          *)
C21_AppendOnly ==
    [][\A p \in Accounts :
           /\ \A bank \in Accounts, amount \in PolicyAmounts :
                  (/\ add_pension_insurance(bank, p, amount, "life")
                   /\ last'.res.ok) =>
                      Insurances(pensioner_insurances', p)
                          = Append(Insurances(pensioner_insurances, p),
                                   [bank_id |-> bank,
                                    insurance_payout_per_period |-> amount,
                                    details |-> "life"])
           /\ ~(/\ last'.op = "add_pension_insurance"
                /\ last'.id = p
                /\ last'.res.ok) =>
                  pensioner_insurances'[p] = pensioner_insurances[p]
           /\ Len(Insurances(pensioner_insurances', p))
                  >= Len(Insurances(pensioner_insurances, p))
           /\ SubSeq(Insurances(pensioner_insurances', p), 1,
                     Len(Insurances(pensioner_insurances, p)))
                  = Insurances(pensioner_insurances, p)]_vars

C21_Witness ==
    /\ last.op = "add_pension_insurance"
    /\ last.res.ok
    /\ Len(Insurances(pensioner_insurances, last.id)) = 2
    /\ Insurances(pensioner_insurances, last.id)[1].bank_id = "eve"
    /\ Insurances(pensioner_insurances, last.id)[2].bank_id = "django"
    /\ Insurances(pensioner_insurances, last.id)[1]
           .insurance_payout_per_period = 500
    /\ Insurances(pensioner_insurances, last.id)[2]
           .insurance_payout_per_period = 10000
    /\ last.caller = "django"

(* C22: the benefit stored for a spouse is overwritten, not accumulated:   *)
(* a successful death report for a pensioner with designated spouse s      *)
(* leaves for s exactly the benefit computed for this death, whatever was  *)
(* stored for s by an earlier death, and leaves every other entry alone.   *)
C22_BenefitOverwritten ==
    [][\A s \in Accounts :
           (/\ last'.op = "report_death_and_assign_spouse_benefit"
            /\ last'.res.ok
            /\ Spouse(pensioners, last'.id) = Some(s)) =>
               LET b == spouse_benefit(
                            calculate_pension_amount(Data(last'.id),
                                                     last'.id).val[1])
               IN /\ last'.res.val = <<Some(b)>>
                  /\ get_my_spouse_death_benefit(s)' = Some(b)
                  /\ \A q \in Accounts \ {s} :
                         spouse_death_benefits'[q] = spouse_death_benefits[q]]_vars

C22_Witness ==
    /\ last.op = "report_death_and_assign_spouse_benefit"
    /\ last.res.ok
    /\ last.id = "eve"
    /\ last.res.val = <<Some(4800)>>
    /\ Stored("bob")
    /\ Data("bob").is_deceased
    /\ Data("bob").spouse_beneficiary = Some("alice")
    /\ Data("bob").current_salary = 60000
    /\ Data("eve").spouse_beneficiary = Some("alice")
    /\ get_my_spouse_death_benefit("alice") = Some(4800)

(* C23: get_my_future_payout never changes storage, and in every state in  *)
(* which the caller's initiate_pension_payout succeeds, the value it       *)
(* returns and stores as pension_payout_amount is the value                *)
(* get_my_future_payout returns in that state.                             *)
C23_GetEqualsInitiate ==
    /\ [](\A caller \in Accounts :
              initiate_pension_payout_result(caller).ok =>
                  get_my_future_payout_result(caller)
                      = initiate_pension_payout_result(caller))
    /\ [][/\ last'.op = "get_my_future_payout" => storage' = storage
          /\ (last'.op = "initiate_pension_payout" /\ last'.res.ok) =>
                 /\ last'.res = get_my_future_payout_result(last'.caller)
                 /\ Amount(pensioners', last'.caller)
                        = get_my_future_payout_result(last'.caller).val]_vars

C23_Witness ==
    /\ last.op = "initiate_pension_payout"
    /\ last.res.ok
    /\ MapContains(pensioner_tax_config, last.caller)
    /\ MapValue(pensioner_tax_config, last.caller).tax_rate_percentage = 33
    /\ MapContains(pensioner_insurances, last.caller)
    /\ Data(last.caller).current_salary = 60000
    /\ Data(last.caller).years_worked = 20
    /\ Data(last.caller).pension_payout_amount = Some(22780)
    /\ last.res.val = Some(22780)

(* C24: initiate_pension_payout applies its checks in a fixed order: no    *)
(* record gives PensionerNotFound; else a deceased or receiving record     *)
(* gives PayoutNotApplicable, eligible or not; else a record that is not   *)
(* eligible gives NotYetEligibleForPayout, whatever the stored tax rate;   *)
(* only then InvalidInput is returned, exactly when the stored rate is     *)
(* above 100.                                                              *)
C24_InitiatePrecedence ==
    [][last'.op = "initiate_pension_payout" =>
           LET caller == last'.caller IN
           IF ~Stored(caller) THEN Failed(last', "PensionerNotFound")
           ELSE IF Data(caller).is_deceased
                   \/ Data(caller).is_receiving_pension
           THEN Failed(last', "PayoutNotApplicable")
           ELSE IF ~Data(caller).is_eligible_for_payout_age_wise
           THEN Failed(last', "NotYetEligibleForPayout")
           ELSE IF StoredRateInvalid(caller)
           THEN Failed(last', "InvalidInput")
           ELSE last'.res.ok]_vars

C24_Witness ==
    /\ last.op = "initiate_pension_payout"
    /\ Failed(last, "NotYetEligibleForPayout")
    /\ StoredRateInvalid(last.caller)
    /\ Data(last.caller).spouse_beneficiary # None

C26_OwnerFixed ==
    /\ [](last.op = "new" => get_contract_owner = last.caller)
    /\ [][/\ contract_owner' = contract_owner
          /\ get_contract_owner' = contract_owner]_vars

C26_Witness ==
    /\ get_contract_owner = "django"
    /\ last.op = "register_bank"
    /\ last.caller = "alice"
    /\ Failed(last, "Unauthorized")
    /\ is_company_authorized("django")
    /\ Stored("bob")

(* C27: report_death_and_assign_spouse_benefit needs no authorization: on  *)
(* every step that is a death report, the result and the storage after it  *)
(* are determined by the storage before it and the reported identity       *)
(* alone, whoever the caller is; for an existing record that is not        *)
(* deceased (with a valid tax config) the report succeeds.                 *)
C27_AnyoneReports ==
    [][last'.op = "report_death_and_assign_spouse_benefit" =>
           LET id == last'.id
               res == report_death_and_assign_spouse_benefit_result(id)
           IN /\ last'.res = res
              /\ (/\ Stored(id)
                  /\ ~Data(id).is_deceased
                  /\ ~StoredRateInvalid(id)) => res.ok
              /\ pensioners' =
                     IF res.ok
                     THEN MapInsert(pensioners, id,
                                    [Data(id) EXCEPT
                                         !.is_deceased = TRUE,
                                         !.is_receiving_pension = FALSE])
                     ELSE pensioners
              /\ spouse_death_benefits' =
                     IF res.ok /\ Spouse(pensioners, id) # None
                     THEN MapInsert(spouse_death_benefits,
                                    Spouse(pensioners, id)[1], res.val[1][1])
                     ELSE spouse_death_benefits
              /\ UNCHANGED <<company_authorizations, bank_authorizations,
                             tax_office_authorizations, pensioner_insurances,
                             pensioner_tax_config, contract_owner>>]_vars

C27_Witness ==
    /\ last.op = "report_death_and_assign_spouse_benefit"
    /\ last.res.ok
    /\ last.caller = "eve"
    /\ ~Stored("eve")
    /\ last.caller # contract_owner
    /\ last.caller \notin company_authorizations
    /\ last.id = "bob"
    /\ Data("bob").is_deceased
    /\ get_my_spouse_death_benefit("alice") = Some(4800)

(* C28: is_receiving_pension becomes true only in a step that is a         *)
(* successful initiate_pension_payout called by the pensioner, on a record *)
(* that exists before the step, is not deceased and is eligible.           *)
C28_PayingFromEligible ==
    [][\A p \in Accounts :
           (/\ Stored(p) => ~Data(p).is_receiving_pension
            /\ MapContains(pensioners', p)
            /\ MapValue(pensioners', p).is_receiving_pension) =>
               /\ last'.op = "initiate_pension_payout"
               /\ last'.caller = p
               /\ last'.res.ok
               /\ Stored(p)
               /\ ~Data(p).is_deceased
               /\ Data(p).is_eligible_for_payout_age_wise]_vars

C28_Witness ==
    /\ last.op = "initiate_pension_payout"
    /\ last.res.ok
    /\ Data(last.caller).is_receiving_pension
    /\ Data(last.caller).is_eligible_for_payout_age_wise
    /\ Data(last.caller).status = "LaidOff"
    /\ MapContains(pensioner_insurances, last.caller)
    /\ MapContains(pensioner_tax_config, last.caller)
    /\ last.res.val = Some(9000)

(* C29: pensioner records are never deleted: once get_pensioner_data(p)    *)
(* returns a record it returns a record after every later step.            *)
C29_RecordsPersist ==
    [][\A p \in Accounts :
           get_pensioner_data(p) # None => get_pensioner_data(p)' # None]_vars

C29_Witness ==
    /\ last.op = "unregister_company"
    /\ last.res.ok
    /\ company_authorizations = {}
    /\ get_pensioner_data("bob") # None
    /\ Data("bob").is_deceased
    /\ Data("bob").pension_payout_amount # None

(* C30: a pensioner has at most one tax config and the last write wins:    *)
(* after a successful apply_pension_tax_rate(p, r) by tax office t,        *)
(* get_pensioner_tax_config(p) is exactly {tax_office_id = t,              *)
(* tax_rate_percentage = r}, whatever was stored before; the configs of    *)
(* the other pensioners are untouched, and no other step changes a config. *)
C30_LastWriteWins ==
    [][/\ \A t \in Accounts, p \in Accounts, r \in OfficeRates :
              (apply_pension_tax_rate(t, p, r) /\ last'.res.ok) =>
                  /\ get_pensioner_tax_config(p)'
                         = Some([tax_office_id |-> t,
                                 tax_rate_percentage |-> r])
                  /\ \A q \in Accounts \ {p} :
                         pensioner_tax_config'[q] = pensioner_tax_config[q]
       /\ ~(last'.op = "apply_pension_tax_rate" /\ last'.res.ok) =>
              pensioner_tax_config' = pensioner_tax_config]_vars

C30_Witness ==
    /\ last.op = "apply_pension_tax_rate"
    /\ last.res.ok
    /\ last.caller = "django"
    /\ get_pensioner_tax_config(last.id)
           = Some([tax_office_id |-> "django", tax_rate_percentage |-> 33])
    /\ Len(Insurances(pensioner_insurances, last.id)) = 2

(* Every ordering of a list.                                               *)
Orderings(list) ==
    {[i \in 1..Len(list) |-> list[f[i]]] : f \in Permutations(1..Len(list))}

(* C31: the payout does not depend on the order of the insurance entries:  *)
(* get_my_future_payout returns the net of base plus the insurance sum,    *)
(* and that sum is the same for every ordering of the stored list, also    *)
(* when it saturates at the largest Balance.                               *)
C31_OrderIndependent ==
    /\ \A p \in Accounts :
           Stored(p) =>
               \A ordering \in Orderings(Insurances(pensioner_insurances, p)) :
                   add_insurances(base_pension(Data(p)), ordering)
                       = total_estimated_payout(Data(p), p)
    /\ (last.op = "get_my_future_payout" /\ last.res.ok) =>
           LET total == add_insurances(
                            base_pension(Data(last.caller)),
                            Insurances(pensioner_insurances, last.caller))
           IN last.res.val =
                  IF MapContains(pensioner_tax_config, last.caller)
                  THEN Some(saturating_sub(
                           total,
                           tax_amount(total,
                                      MapValue(pensioner_tax_config,
                                               last.caller)
                                          .tax_rate_percentage)))
                  ELSE Some(total)

C31_Witness ==
    /\ last.op = "get_my_future_payout"
    /\ last.res.ok
    /\ Len(Insurances(pensioner_insurances, last.caller)) = 3
    /\ Insurances(pensioner_insurances, last.caller)[1]
           .insurance_payout_per_period = 500
    /\ Insurances(pensioner_insurances, last.caller)[2]
           .insurance_payout_per_period = BalanceMax
    /\ Insurances(pensioner_insurances, last.caller)[3]
           .insurance_payout_per_period = 10000
    /\ last.res.val = Some(BalanceMax)

(* C32: in every reachable state a record that is receiving a pension has  *)
(* a stored payout amount, and a record with a stored payout amount is     *)
(* receiving a pension or deceased.                                        *)
C32_AmountAndFlags ==
    \A p \in Accounts :
        Stored(p) =>
            /\ Data(p).is_receiving_pension =>
                   Data(p).pension_payout_amount # None
            /\ Data(p).pension_payout_amount # None =>
                   Data(p).is_receiving_pension \/ Data(p).is_deceased

C32_Witness ==
    /\ Stored("bob")
    /\ Data("bob").pension_payout_amount = Some(30600)
    /\ Data("bob").is_deceased
    /\ ~Data("bob").is_receiving_pension
    /\ ~Data("bob").is_eligible_for_payout_age_wise
    /\ last.op = "set_age_eligibility_status"

(* C33: in the states reachable through messages, get_my_future_payout,    *)
(* initiate_pension_payout and report_death_and_assign_spouse_benefit      *)
(* never return InvalidInput, for any caller or reported identity, and a   *)
(* death report for an existing record that is not deceased succeeds.      *)
C33_NoInvalidInputOnRead ==
    /\ \A id \in Accounts :
           /\ ~Failed([res |-> get_my_future_payout_result(id)],
                      "InvalidInput")
           /\ ~Failed([res |-> initiate_pension_payout_result(id)],
                      "InvalidInput")
           /\ ~Failed([res |->
                           report_death_and_assign_spouse_benefit_result(id)],
                      "InvalidInput")
           /\ (Stored(id) /\ ~Data(id).is_deceased) =>
                  report_death_and_assign_spouse_benefit_result(id).ok
    /\ last.op \in CalculatingOps => ~Failed(last, "InvalidInput")

C33_Witness ==
    /\ last.op = "report_death_and_assign_spouse_benefit"
    /\ last.res.ok
    /\ MapContains(pensioner_tax_config, last.id)
    /\ MapContains(pensioner_insurances, last.id)
    /\ Data(last.id).spouse_beneficiary # None
    /\ last.res.val = <<Some(6120)>>

(* C34: in every reachable state every identity with an insurance list or  *)
(* a tax config has a pensioner record.                                    *)
C34_KeysHaveRecords ==
    /\ MapKeys(pensioner_insurances) \subseteq MapKeys(pensioners)
    /\ MapKeys(pensioner_tax_config) \subseteq MapKeys(pensioners)

C34_Witness ==
    /\ MapKeys(pensioner_insurances) = {"bob"}
    /\ MapKeys(pensioner_tax_config) = {"bob"}
    /\ MapKeys(pensioners) = {"bob"}
    /\ last.op = "add_pension_insurance"
    /\ last.res.ok

(* C35: in every reachable state every identity with a stored spouse       *)
(* benefit is the spouse_beneficiary of at least one deceased pensioner,   *)
(* and a stored benefit changes only in a step that is a successful death  *)
(* report for a pensioner naming that identity as spouse.                  *)
C35_BenefitHasDeceased ==
    /\ [](\A s \in MapKeys(spouse_death_benefits) :
              \E p \in MapKeys(pensioners) :
                  /\ Data(p).is_deceased
                  /\ Data(p).spouse_beneficiary = Some(s))
    /\ [][\A s \in Accounts :
              spouse_death_benefits'[s] # spouse_death_benefits[s] =>
                  /\ last'.op = "report_death_and_assign_spouse_benefit"
                  /\ last'.res.ok
                  /\ Stored(last'.id)
                  /\ Spouse(pensioners, last'.id) = Some(s)]_vars

C35_Witness ==
    /\ MapKeys(spouse_death_benefits) = {"alice", "eve"}
    /\ Stored("bob") /\ Data("bob").is_deceased
    /\ Stored("eve") /\ Data("eve").is_deceased
    /\ Data("bob").spouse_beneficiary = Some("eve")
    /\ Data("eve").spouse_beneficiary = Some("alice")
    /\ last.op = "designate_spouse_beneficiary"
    /\ Failed(last, "PayoutNotApplicable")

(* C36: the payout arithmetic never creates value, overflowing inputs      *)
(* included: the net payout the engine returns is at most the gross total  *)
(* (base plus insurance sum), and the spouse benefit returned and stored   *)
(* by a death report is at most the net payout before the death.           *)
C36_NeverCreatesValue ==
    /\ [](\A p \in MapKeys(pensioners) :
              LET net == calculate_pension_amount(
                             [Data(p) EXCEPT !.is_deceased = FALSE], p)
              IN net.ok =>
                     /\ net.val[1] <= total_estimated_payout(Data(p), p)
                     /\ spouse_benefit(net.val[1]) <= net.val[1])
    /\ [][/\ (last'.op = "get_my_future_payout" /\ last'.res.ok) =>
                 last'.res.val[1]
                     <= total_estimated_payout(Data(last'.caller),
                                               last'.caller)
          /\ \A s \in Accounts :
                 (/\ last'.op = "report_death_and_assign_spouse_benefit"
                  /\ last'.res.ok
                  /\ Spouse(pensioners, last'.id) = Some(s)) =>
                     /\ last'.res.val[1][1]
                            <= calculate_pension_amount(Data(last'.id),
                                                        last'.id).val[1]
                     /\ spouse_death_benefits'[s] = last'.res.val[1]]_vars

C36_Witness ==
    /\ last.op = "report_death_and_assign_spouse_benefit"
    /\ last.res.ok
    /\ last.res.val = <<Some(0)>>
    /\ Data(last.id).current_salary = BalanceMax
    /\ Data(last.id).years_worked = 1
    /\ ~MapContains(pensioner_tax_config, last.id)
    /\ MapContains(pensioner_insurances, last.id)
    /\ get_my_spouse_death_benefit("eve") = Some(0)

(* C37: unregistering a bank or a tax office revokes future calls only: a  *)
(* step that is unregister_bank or unregister_tax_office leaves every      *)
(* insurance list, tax config and record as stored, and what               *)
(* get_my_future_payout, initiate_pension_payout and the death report      *)
(* would return for each identity is the same after the step as before.    *)
C37_UnregisterKeepsEntries ==
    [][last'.op \in {"unregister_bank", "unregister_tax_office"} =>
           /\ UNCHANGED <<pensioners, pensioner_insurances,
                          pensioner_tax_config, spouse_death_benefits>>
           /\ \A id \in Accounts :
                  /\ get_my_future_payout_result(id)'
                         = get_my_future_payout_result(id)
                  /\ initiate_pension_payout_result(id)'
                         = initiate_pension_payout_result(id)
                  /\ report_death_and_assign_spouse_benefit_result(id)'
                         = report_death_and_assign_spouse_benefit_result(id)]_vars

C37_Witness ==
    /\ last.op = "get_my_future_payout"
    /\ last.res.val = Some(30600)
    /\ bank_authorizations = {}
    /\ tax_office_authorizations = {}
    /\ Insurances(pensioner_insurances, last.caller)[1].bank_id = "eve"
    /\ MapValue(pensioner_tax_config, last.caller).tax_office_id = "eve"

(* One role's revocation: a successful unregister leaves the identity out  *)
(* of the authorization set and the pensioner maps as they were; an        *)
(* identity outside the set comes into it only by the owner's successful   *)
(* register of that identity; and the role's message from a caller outside *)
(* the set returns Unauthorized and stores nothing.                        *)
Revocation(unregister, register, op, authorizations) ==
    /\ (last'.op = unregister /\ last'.res.ok) =>
           /\ last'.id \in authorizations
           /\ last'.id \notin authorizations'
           /\ UNCHANGED <<pensioners, pensioner_insurances,
                          pensioner_tax_config, spouse_death_benefits>>
    /\ \A id \in Accounts :
           (id \notin authorizations /\ id \in authorizations') =>
               /\ last'.op = register
               /\ last'.res.ok
               /\ last'.caller = contract_owner
               /\ last'.id = id
    /\ (last'.op = op /\ last'.caller \notin authorizations) =>
           Failed(last', "Unauthorized") /\ storage' = storage

(* C38: revocation takes effect on the next call.  After the owner's       *)
(* successful unregister_company(c), c is out of the company set and stays *)
(* out until the owner registers c again, every                            *)
(* update_pensioner_employment by a caller outside the set returns         *)
(* Unauthorized, and the records stay in the pensioner map unchanged; the  *)
(* same for banks with add_pension_insurance and tax offices with          *)
(* apply_pension_tax_rate.                                                 *)
C38_RevocationOnNextCall ==
    [][/\ Revocation("unregister_company", "register_company",
                     "update_pensioner_employment", company_authorizations)
       /\ Revocation("unregister_bank", "register_bank",
                     "add_pension_insurance", bank_authorizations)
       /\ Revocation("unregister_tax_office", "register_tax_office",
                     "apply_pension_tax_rate", tax_office_authorizations)]_vars

(* django, unregistered after creating bob's record, is refused while the  *)
(* record it created is still stored.                                      *)
C38_Witness ==
    /\ last.op = "update_pensioner_employment"
    /\ last.caller = "django"
    /\ last.id = "bob"
    /\ Failed(last, "Unauthorized")
    /\ "django" \notin company_authorizations
    /\ Stored("bob")
    /\ Data("bob").years_worked = 20

(* C39: set_age_eligibility_status changes only                            *)
(* is_eligible_for_payout_age_wise of the named record: the record's other *)
(* fields, every other record, the other maps, the authorization sets and  *)
(* the owner are unchanged, so a record that is receiving a pension keeps  *)
(* is_receiving_pension and its stored amount when its eligibility is      *)
(* revoked; a refused call changes nothing.                                *)
C39_EligibilityFrame ==
    [][last'.op = "set_age_eligibility_status" =>
           \A id \in Accounts :
               last'.id = id =>
                   IF last'.res.ok
                   THEN /\ Stored(id)
                        /\ MapContains(pensioners', id)
                        /\ [MapValue(pensioners', id) EXCEPT
                                !.is_eligible_for_payout_age_wise =
                                    Data(id).is_eligible_for_payout_age_wise]
                               = Data(id)
                        /\ \A q \in Accounts \ {id} :
                               pensioners'[q] = pensioners[q]
                        /\ UNCHANGED <<company_authorizations,
                                       bank_authorizations,
                                       tax_office_authorizations,
                                       pensioner_insurances,
                                       pensioner_tax_config,
                                       spouse_death_benefits, contract_owner>>
                   ELSE storage' = storage]_vars

(* The owner has revoked the eligibility of bob, who is receiving 30600.   *)
C39_Witness ==
    /\ last.op = "set_age_eligibility_status"
    /\ last.res.ok
    /\ last.id = "bob"
    /\ Stored("bob")
    /\ ~Data("bob").is_eligible_for_payout_age_wise
    /\ Data("bob").is_receiving_pension
    /\ Data("bob").pension_payout_amount = Some(30600)

(* C40: initiate_pension_payout and designate_spouse_beneficiary act on    *)
(* the caller's own record only: on every such step the record of every    *)
(* identity other than the caller (its stored payout amount included),     *)
(* every insurance list, tax config and spouse benefit, the authorization  *)
(* sets and the owner are unchanged; and a caller with no record of its    *)
(* own, the owner or a registered role as much as anyone, gets             *)
(* PensionerNotFound and changes nothing.                                  *)
C40_OwnRecordOnly ==
    [][last'.op \in {"initiate_pension_payout",
                     "designate_spouse_beneficiary"} =>
           /\ \A q \in Accounts :
                  q # last'.caller => pensioners'[q] = pensioners[q]
           /\ UNCHANGED <<pensioner_insurances, pensioner_tax_config,
                          spouse_death_benefits, company_authorizations,
                          bank_authorizations, tax_office_authorizations,
                          contract_owner>>
           /\ ~Stored(last'.caller) =>
                  Failed(last', "PensionerNotFound") /\ storage' = storage]_vars

(* bob has started his payout while eve, eligible and with an insurance    *)
(* and a tax rate of her own, has not.                                     *)
C40_Witness ==
    /\ last.op = "initiate_pension_payout"
    /\ last.caller = "bob"
    /\ last.res.ok
    /\ Data("bob").is_receiving_pension
    /\ Stored("eve")
    /\ Data("eve").is_eligible_for_payout_age_wise
    /\ ~Data("eve").is_receiving_pension
    /\ Data("eve").pension_payout_amount = None
    /\ MapContains(pensioner_insurances, "eve")
    /\ MapContains(pensioner_tax_config, "eve")

===========================================================================
